---- MODULE Spec2Model ----
(***************************************************************************)
(* A model of the CHEAP core data model (cheap-core): the property types,  *)
(* the property write path, the Aspect property bag, Entity equality and   *)
(* aspect mapping, the list, set, directory, tree and aspect-map           *)
(* hierarchies, and the Catalog registries, as implemented by the *Impl    *)
(* classes; the PropertyDef JSON round trip of cheap-json; and the retry   *)
(* loop of the cheap-rest-client.                                          *)
(***************************************************************************)
EXTENDS Integers, Sequences, FiniteSets, TLC

VARIABLES
    definition,   \* AspectImpl.definition.properties: property name -> PropertyDefImpl
    properties,   \* AspectImpl.properties: property name -> PropertyImpl
    lastWritten,  \* history: property name -> last value successfully written, or Unwritten
    heap,         \* the NodeImpl objects allocated so far: reference -> NodeImpl
    root,         \* EntityTreeHierarchyImpl.root: a reference, or NoNode
    _nodes,       \* EntityTreeHierarchyImpl._nodes: entity id -> reference
    entities,     \* EntityListHierarchyImpl.entities
    ents,         \* the EntityImpl instances under comparison: slot -> EntityImpl
    dictOf,       \* slot -> the dict object its entity's aspects field refers to
    copyOf,       \* history: slot -> the slot its entity was copied from, or 0
    set_entities, \* EntitySetHierarchyImpl.entities
    directory,    \* EntityDirectoryHierarchyImpl.entities: path -> entity id
    aspects,      \* AspectMapHierarchyImpl.aspects: entity id -> Aspect reference
    species,      \* CatalogImpl.species
    _aspect_defs, \* CatalogImpl._aspect_defs: name -> AspectDef reference
    _hierarchies, \* CatalogImpl._hierarchies: name -> Hierarchy reference
    client,       \* the REST client class: CheapClient or AsyncCheapClient
    max_retries,  \* CheapClientConfig.max_retries
    pc,           \* _request_with_retry: "request" before an attempt, "done" after the call
    attempt,      \* _request_with_retry: the loop variable
    last_exception, \* _request_with_retry: the last network failure caught, or "None"
    log,          \* history: what each self.client.request call of this call met
    outcome,      \* what _request_with_retry returned or raised
    component,    \* which object the client exercises: it never changes
    call          \* the last operation performed, its arguments and its outcome

aspectVars == <<definition, properties, lastWritten>>
treeVars == <<heap, root, _nodes>>
listVars == <<entities>>
entityVars == <<ents, dictOf, copyOf>>
setVars == <<set_entities>>
dirVars == <<directory>>
mapVars == <<aspects>>
catalogVars == <<species, _aspect_defs, _hierarchies>>
restVars == <<client, max_retries, pc, attempt, last_exception, log, outcome>>

vars == <<aspectVars, treeVars, listVars, entityVars, setVars, dirVars, mapVars,
          catalogVars, restVars, component, call>>

\* The entity identifiers in use.
UUIDs == {"u1", "u2", "u3"}

---------------------------------------------------------------------------
(* Property values.  A value is its Python class and a payload.            *)

None == [kind |-> "NoneType", v |-> 0]

PropertyValue ==
    { None,
      [kind |-> "int", v |-> 1],
      [kind |-> "int", v |-> 2],
      [kind |-> "bool", v |-> 1],
      [kind |-> "str", v |-> 1] }

\* isinstance(value, cls): bool is a subclass of int.
isinstance(value, cls) ==
    \/ value.kind = cls
    \/ value.kind = "bool" /\ cls = "int"

PropertyType ==
    { "INTEGER", "FLOAT", "BIG_INTEGER", "BIG_DECIMAL", "BOOLEAN", "STRING",
      "TEXT", "DATE_TIME", "URI", "UUID", "CLOB", "BLOB" }

python_type(t) ==
    CASE t = "INTEGER"     -> "int"
      [] t = "FLOAT"       -> "float"
      [] t = "BIG_INTEGER" -> "int"
      [] t = "BIG_DECIMAL" -> "Decimal"
      [] t = "BOOLEAN"     -> "bool"
      [] t = "STRING"      -> "str"
      [] t = "TEXT"        -> "str"
      [] t = "DATE_TIME"   -> "datetime"
      [] t = "URI"         -> "str"
      [] t = "UUID"        -> "UUID"
      [] t = "CLOB"        -> "str"
      [] t = "BLOB"        -> "bytes"

validate(t, value) ==
    IF value = None THEN TRUE ELSE isinstance(value, python_type(t))

---------------------------------------------------------------------------
(* PropertyDefImpl and PropertyImpl.                                       *)

\* The property types the modelled schemas declare.
SchemaTypes == {"INTEGER", "STRING"}

\* PropertyDefImpl.__post_init__: TRUE iff construction succeeds.
PropertyDef_post_init(d) ==
    /\ d.name # ""
    /\ ~(d.default_value # None /\ ~validate(d.property_type, d.default_value))

PropertyDefImpl(n) ==
    { d \in [name : {n}, property_type : SchemaTypes, default_value : PropertyValue,
             is_writable : BOOLEAN, is_nullable : BOOLEAN] :
        PropertyDef_post_init(d) }

\* PropertyImpl(definition=d): the stored value starts as None.
PropertyImpl(d) == [definition |-> d, _value |-> None]

\* PropertyImpl.value (getter)
value_get(p) ==
    IF p._value = None THEN p.definition.default_value ELSE p._value

\* The setter with the type check ahead of the writability check.
value_set_type_first(p, new_value) ==
    IF new_value # None /\ ~validate(p.definition.property_type, new_value)
    THEN [raised |-> "TypeError: not valid for property type", prop |-> p]
    ELSE IF ~p.definition.is_writable
    THEN [raised |-> "ValueError: read-only", prop |-> p]
    ELSE IF new_value = None /\ ~p.definition.is_nullable
    THEN [raised |-> "ValueError: non-nullable", prop |-> p]
    ELSE [raised |-> "", prop |-> [p EXCEPT !._value = new_value]]

\* The setter storing the value before it validates it.
value_set_store_first(p, new_value) ==
    IF ~p.definition.is_writable
    THEN [raised |-> "ValueError: read-only", prop |-> p]
    ELSE IF new_value # None /\ ~validate(p.definition.property_type, new_value)
    THEN [raised |-> "TypeError: not valid for property type",
          prop |-> [p EXCEPT !._value = new_value]]
    ELSE IF new_value = None /\ ~p.definition.is_nullable
    THEN [raised |-> "ValueError: non-nullable",
          prop |-> [p EXCEPT !._value = new_value]]
    ELSE [raised |-> "", prop |-> [p EXCEPT !._value = new_value]]

\* PropertyImpl.value (setter): the exception raised ("" if none) and the
\* Property afterwards.
value_set(p, new_value) ==
    IF ~p.definition.is_writable
    THEN [raised |-> "ValueError: read-only", prop |-> p]
    ELSE IF new_value # None /\ ~validate(p.definition.property_type, new_value)
    THEN [raised |-> "TypeError: not valid for property type", prop |-> p]
    ELSE IF new_value = None /\ ~p.definition.is_nullable
    THEN [raised |-> "ValueError: non-nullable", prop |-> p]
    ELSE [raised |-> "", prop |-> [p EXCEPT !._value = new_value]]

---------------------------------------------------------------------------
(* AspectImpl.                                                             *)

PropNames == {"name", "age"}
UndefinedName == "zip"

Empty == [n \in {} |-> None]

\* The state of each component while another one is exercised.
AspectIdle == definition = Empty /\ properties = Empty /\ lastWritten = Empty
TreeIdle == heap = <<>> /\ root = 0 /\ _nodes = Empty
ListIdle == entities = <<>>
EntityIdle == ents = Empty /\ dictOf = Empty /\ copyOf = Empty
SetIdle == set_entities = {}
DirIdle == directory = Empty
MapIdle == aspects = Empty
CatalogIdle == species = "" /\ _aspect_defs = Empty /\ _hierarchies = Empty
RestIdle ==
    /\ client = "" /\ max_retries = 0 /\ pc = "" /\ attempt = 0
    /\ last_exception = "None" /\ log = <<>> /\ outcome = [kind |-> "none"]

\* The AspectDefImpl.properties mappings the model builds aspects from.
\* "name" takes every PropertyDefImpl; "age" an INTEGER without a default.
SchemaDefs(n) ==
    IF n = "name"
    THEN PropertyDefImpl(n)
    ELSE { d \in PropertyDefImpl(n) :
             d.property_type = "INTEGER" /\ d.default_value = None }

Schemas ==
    UNION { { s \in [D -> UNION {SchemaDefs(n) : n \in D}] :
                \A n \in D : s[n].name = n } : D \in SUBSET PropNames }

\* __post_init__ materializing nothing.
Aspect_post_init_lazy(defs, props) == props

\* AspectImpl.__post_init__: a Property for every defined name not yet present.
Aspect_post_init(defs, props) ==
    [n \in (DOMAIN props) \cup (DOMAIN defs) |->
        IF n \in DOMAIN props THEN props[n] ELSE PropertyImpl(defs[n])]

\* AspectImpl.get_property: the Property, or None.
get_property(props, property_name) ==
    IF property_name \in DOMAIN props THEN props[property_name] ELSE None

\* A variant of set_property that runs the type check ahead of the
\* definedness check: with no definition to check against, every value but
\* None is reported as a type error.
set_property_type_first(defs, props, property_name, value) ==
    IF property_name \notin DOMAIN defs /\ value # None
    THEN [raised |-> "TypeError: not valid for property type", properties |-> props]
    ELSE IF property_name \notin DOMAIN defs
    THEN [raised |-> "KeyError: not defined", properties |-> props]
    ELSE LET prop == IF property_name \in DOMAIN props
                     THEN props[property_name]
                     ELSE [definition |-> defs[property_name], _value |-> None]
             r == value_set(prop, value)
         IN [raised |-> r.raised,
             properties |-> [n \in (DOMAIN props) \cup {property_name} |->
                                IF n = property_name THEN r.prop ELSE props[n]]]

\* AspectImpl.set_property: the exception raised and the property mapping afterwards.
set_property(defs, props, property_name, value) ==
    IF property_name \notin DOMAIN defs
    THEN [raised |-> "KeyError: not defined", properties |-> props]
    ELSE LET prop == IF get_property(props, property_name) = None
                     THEN PropertyImpl(defs[property_name])
                     ELSE props[property_name]
             r == value_set(prop, value)
         IN [raised |-> r.raised,
             properties |-> [n \in (DOMAIN props) \cup {property_name} |->
                                IF n = property_name THEN r.prop ELSE props[n]]]

Unwritten == [kind |-> "unwritten", v |-> 0]

NoCall == [op |-> "construct", name |-> "", value |-> None, raised |-> ""]

\* AspectImpl(definition=aspect_def)
InitAspect ==
    /\ component = "Aspect"
    /\ RestIdle
    /\ definition \in Schemas
    /\ properties = Aspect_post_init(definition, Empty)
    /\ lastWritten = [n \in DOMAIN definition |-> Unwritten]
    /\ call = NoCall
    /\ TreeIdle /\ ListIdle /\ EntityIdle
    /\ SetIdle /\ DirIdle /\ MapIdle /\ CatalogIdle

\* aspect.set_property(property_name, value)
SetProperty(property_name, value) ==
    LET r == set_property(definition, properties, property_name, value) IN
    /\ properties' = r.properties
    /\ lastWritten' = IF r.raised = ""
                      THEN [lastWritten EXCEPT ![property_name] = value]
                      ELSE lastWritten
    /\ call' = [op |-> "set_property", name |-> property_name, value |-> value,
                raised |-> r.raised]
    /\ UNCHANGED <<component, restVars, definition, treeVars, listVars, entityVars,
                   setVars, dirVars, mapVars, catalogVars>>

\* aspect.get_property(property_name).value = value
SetValue(property_name, value) ==
    /\ get_property(properties, property_name) # None
    /\ LET r == value_set(properties[property_name], value) IN
       /\ properties' = [properties EXCEPT ![property_name] = r.prop]
       /\ lastWritten' = IF r.raised = ""
                         THEN [lastWritten EXCEPT ![property_name] = value]
                         ELSE lastWritten
       /\ call' = [op |-> "value", name |-> property_name, value |-> value,
                   raised |-> r.raised]
    /\ UNCHANGED <<component, restVars, definition, treeVars, listVars, entityVars,
                   setVars, dirVars, mapVars, catalogVars>>

\* aspect.get_property(property_name)
GetProperty(property_name) ==
    /\ call' = [op |-> "get_property", name |-> property_name, value |-> None,
                raised |-> "", result |-> get_property(properties, property_name),
                before |-> properties]
    /\ UNCHANGED <<component, restVars, aspectVars, treeVars, listVars, entityVars,
                   setVars, dirVars, mapVars, catalogVars>>

NextAspect ==
    \/ \E n \in PropNames \cup {UndefinedName} : GetProperty(n)
    \/ \E n \in PropNames \cup {UndefinedName}, v \in PropertyValue : SetProperty(n, v)
    \/ \E n \in PropNames, v \in PropertyValue : SetValue(n, v)

SpecAspect == InitAspect /\ [][NextAspect]_vars

---------------------------------------------------------------------------
(* Properties of the Property write path and of AspectImpl.                *)

\* The outcome of writing v under definition d, by the documented precedence:
\* writability, then nullability, then type.
WriteOutcome(d, v) ==
    IF ~d.is_writable THEN "ValueError: read-only"
    ELSE IF v = None /\ ~d.is_nullable THEN "ValueError: non-nullable"
    ELSE IF ~validate(d.property_type, v) THEN "TypeError: not valid for property type"
    ELSE ""

\* C1: a write of v (through the value setter or set_property on a defined
\* name) ends in the read-only error if the definition is not writable,
\* otherwise in the non-nullable error if v is None and the definition is not
\* nullable, otherwise in the type error if v fails validate, and otherwise
\* succeeds and stores v.
C1_WritePrecedence ==
    (call.op \in {"set_property", "value"} /\ call.name \in DOMAIN definition) =>
        /\ call.raised = WriteOutcome(definition[call.name], call.value)
        /\ call.raised = "" => properties[call.name]._value = call.value

\* A write of a value of the wrong type to a read-only property was refused
\* as read-only.
C1_Witness ==
    /\ call.op \in {"set_property", "value"}
    /\ call.name \in DOMAIN definition
    /\ call.raised = "ValueError: read-only"
    /\ ~validate(definition[call.name].property_type, call.value)

\* C2: a set_property call that fails (undefined name, read-only,
\* non-nullable, type mismatch) leaves the property mapping as it was: the
\* same keys, the same stored values, the same values read.
C2_FailedSetPropertyNoMutation ==
    [][(call'.op = "set_property" /\ call'.raised # "") =>
          /\ DOMAIN properties' = DOMAIN properties
          /\ \A n \in DOMAIN properties :
                /\ properties'[n]._value = properties[n]._value
                /\ value_get(properties'[n]) = value_get(properties[n])]_vars

\* A set_property call failed on a defined property that holds a written value.
C2_Witness ==
    /\ call.op = "set_property"
    /\ call.raised \in {"ValueError: non-nullable", "TypeError: not valid for property type"}
    /\ properties[call.name]._value # None

\* C6: reading a property returns the last value successfully written to it
\* (None included), and the definition's default if it was never written.
C6_ReadReturnsLastWritten ==
    \A n \in DOMAIN properties :
        value_get(properties[n]) =
            IF lastWritten[n] = Unwritten
            THEN definition[n].default_value
            ELSE lastWritten[n]

\* C7: right after construction the mapping holds one unset Property for
\* every PropertyDef of the schema, and after any set_property calls its key
\* set is the schema's set of property names.
C7_KeysAreSchemaNames ==
    /\ DOMAIN properties = DOMAIN definition
    /\ call.op = "construct" =>
          \A n \in DOMAIN definition :
              properties[n] = [definition |-> definition[n], _value |-> None]

\* set_property was refused for a name outside a non-empty schema.
C7_Witness ==
    /\ call.op = "set_property"
    /\ call.name \notin DOMAIN definition
    /\ call.raised = "KeyError: not defined"
    /\ DOMAIN definition = PropNames
    /\ \E n \in DOMAIN properties : properties[n]._value # None

\* C19: set_property(name, value) raises the "not defined" error if and only
\* if name is not a property name of the aspect's definition; the check comes
\* before the writability, nullability and type checks, so an undefined name
\* gives "not defined" whatever the value.
C19_UndefinedNameFirst ==
    call.op = "set_property" =>
        /\ call.raised = "KeyError: not defined" <=> call.name \notin DOMAIN definition
        /\ call.name \notin DOMAIN definition => call.name \notin DOMAIN properties

\* An undefined name written with a value of a class no modelled property
\* type accepts.
C19_Witness ==
    /\ call.op = "set_property"
    /\ call.name = UndefinedName
    /\ call.value = [kind |-> "bool", v |-> 1]
    /\ call.raised = "KeyError: not defined"

---------------------------------------------------------------------------
(* NodeImpl and EntityTreeHierarchyImpl.  Nodes are objects: the heap maps *)
(* a reference to the NodeImpl it denotes, and NoNode is the None          *)
(* reference.                                                              *)

NoNode == 0

\* The number of NodeImpl objects a run allocates.
MaxNodes == 4

\* NodeImpl(entity_id=entity_id): no parent, no children.
NodeImpl(entity_id) == [entity_id |-> entity_id, parent |-> NoNode, children |-> <<>>]

\* NodeImpl.__eq__ as @dataclass generates it: the same object, or equal
\* (entity_id, parent, children) tuples, compared element by element.
RECURSIVE node_eq(_, _, _)
node_eq(h, a, b) ==
    \/ a = b
    \/ /\ h[a].entity_id = h[b].entity_id
       /\ \/ h[a].parent = h[b].parent
          \/ /\ h[a].parent # NoNode
             /\ h[b].parent # NoNode
             /\ node_eq(h, h[a].parent, h[b].parent)
       /\ Len(h[a].children) = Len(h[b].children)
       /\ \A i \in 1..Len(h[a].children) :
              node_eq(h, h[a].children[i], h[b].children[i])

\* NodeImpl.add_child keyed by the child's entity id.
Node_add_child_by_id(h, self, child) ==
    IF ~\E i \in 1..Len(h[self].children) :
            h[h[self].children[i]].entity_id = h[child].entity_id
    THEN [h EXCEPT ![self].children = Append(@, child), ![child].parent = self]
    ELSE h

\* A variant of NodeImpl.add_child that does not set the child's parent.
Node_add_child_unlinked(h, self, child) ==
    IF ~\E i \in 1..Len(h[self].children) : node_eq(h, h[self].children[i], child)
    THEN [h EXCEPT ![self].children = Append(@, child)]
    ELSE h

\* NodeImpl.add_child: the heap afterwards.
Node_add_child(h, self, child) ==
    IF ~\E i \in 1..Len(h[self].children) : node_eq(h, h[self].children[i], child)
    THEN [h EXCEPT ![self].children = Append(@, child), ![child].parent = self]
    ELSE h

\* EntityTreeHierarchyImpl.size
tree_size(nodes) == Cardinality(DOMAIN nodes)

\* EntityTreeHierarchyImpl.is_empty
tree_is_empty(r) == r = NoNode

\* EntityTreeHierarchyImpl.get_node: the reference, or NoNode.
get_node(nodes, entity_id) ==
    IF entity_id \in DOMAIN nodes THEN nodes[entity_id] ELSE NoNode

\* A variant of item assignment that loses the item.
dict_set_lost(d, k, x) == d

\* dict item assignment: d[k] = x
dict_set(d, k, x) == [n \in (DOMAIN d) \cup {k} |-> IF n = k THEN x ELSE d[n]]

InitTree ==
    /\ component = "EntityTreeHierarchy"
    /\ RestIdle
    /\ heap = <<>>
    /\ root = NoNode
    /\ _nodes = Empty
    /\ call = [op |-> "construct"]
    /\ AspectIdle /\ ListIdle /\ EntityIdle
    /\ SetIdle /\ DirIdle /\ MapIdle /\ CatalogIdle

\* hierarchy.clear()
TreeClear ==
    /\ root' = NoNode
    /\ _nodes' = Empty
    /\ call' = [op |-> "clear", before |-> [heap |-> heap, root |-> root, nodes |-> _nodes]]
    /\ UNCHANGED <<component, restVars, heap, aspectVars, listVars, entityVars,
                   setVars, dirVars, mapVars, catalogVars>>

\* hierarchy.set_root(entity_id)
SetRoot(entity_id) ==
    /\ Len(heap) < MaxNodes
    /\ heap' = Append(heap, NodeImpl(entity_id))
    /\ root' = Len(heap) + 1
    /\ _nodes' = dict_set(_nodes, entity_id, Len(heap) + 1)
    /\ call' = [op |-> "set_root", entity_id |-> entity_id,
                before |-> [heap |-> heap, root |-> root, nodes |-> _nodes]]
    /\ UNCHANGED <<component, restVars, aspectVars, listVars, entityVars,
                   setVars, dirVars, mapVars, catalogVars>>

\* hierarchy.add_child(parent_id, child_id) with parent_id unknown: returns False.
AddChildNoParent(parent_id, child_id) ==
    /\ get_node(_nodes, parent_id) = NoNode
    /\ call' = [op |-> "add_child", parent_id |-> parent_id, child_id |-> child_id,
                result |-> FALSE,
                before |-> [heap |-> heap, root |-> root, nodes |-> _nodes]]
    /\ UNCHANGED <<component, restVars, treeVars, aspectVars, listVars, entityVars,
                   setVars, dirVars, mapVars, catalogVars>>

\* hierarchy.add_child(parent_id, child_id) with parent_id known: returns True.
AddChild(parent_id, child_id) ==
    /\ get_node(_nodes, parent_id) # NoNode
    /\ Len(heap) < MaxNodes
    /\ LET parent_node == get_node(_nodes, parent_id)
           child_node == Len(heap) + 1
       IN /\ heap' = Node_add_child(Append(heap, NodeImpl(child_id)),
                                    parent_node, child_node)
          /\ _nodes' = dict_set(_nodes, child_id, child_node)
    /\ call' = [op |-> "add_child", parent_id |-> parent_id, child_id |-> child_id,
                result |-> TRUE,
                before |-> [heap |-> heap, root |-> root, nodes |-> _nodes]]
    /\ UNCHANGED <<component, restVars, root, aspectVars, listVars, entityVars,
                   setVars, dirVars, mapVars, catalogVars>>

\* hierarchy.get_node(entity_id)
GetNode(entity_id) ==
    /\ call' = [op |-> "get_node", entity_id |-> entity_id, raised |-> "",
                result |-> get_node(_nodes, entity_id),
                before |-> [heap |-> heap, root |-> root, nodes |-> _nodes]]
    /\ UNCHANGED <<component, restVars, treeVars, aspectVars, listVars, entityVars,
                   setVars, dirVars, mapVars, catalogVars>>

NextTree ==
    \/ TreeClear
    \/ \E id \in UUIDs : GetNode(id)
    \/ \E id \in UUIDs : SetRoot(id)
    \/ \E p \in UUIDs, c \in UUIDs : AddChildNoParent(p, c)
    \/ \E p \in UUIDs, c \in UUIDs : AddChild(p, c)

SpecTree == InitTree /\ [][NextTree]_vars

---------------------------------------------------------------------------
(* Properties of the tree hierarchy.                                       *)

\* The nodes met following parent links from node r, nearest first.
RECURSIVE AncestorsOf(_, _)
AncestorsOf(h, r) ==
    IF h[r].parent = NoNode THEN <<>>
    ELSE <<h[r].parent>> \o AncestorsOf(h, h[r].parent)

\* The nodes met following children links from node r, r included.
RECURSIVE ReachableFrom(_, _)
ReachableFrom(h, r) ==
    IF r = NoNode THEN {}
    ELSE {r} \cup UNION { ReachableFrom(h, h[r].children[i]) :
                            i \in 1..Len(h[r].children) }

\* The nodes of the tree: those below the root and those get_node returns.
TreeNodes == ReachableFrom(heap, root) \cup { _nodes[id] : id \in DOMAIN _nodes }

Range(s) == { s[i] : i \in 1..Len(s) }

\* C3: add_child(parent_id, child_id) with child_id equal to parent_id or to
\* an ancestor of parent_id fails and leaves the tree unchanged, and no entity
\* id in the tree is its own ancestor.
C3_TreeAcyclic ==
    /\ \A r \in TreeNodes :
           \A a \in Range(AncestorsOf(heap, r)) : heap[a].entity_id # heap[r].entity_id
    /\ (/\ call.op = "add_child"
        /\ get_node(call.before.nodes, call.parent_id) # NoNode
        /\ LET p == get_node(call.before.nodes, call.parent_id) IN
           call.child_id \in { call.before.heap[a].entity_id :
                                 a \in {p} \cup Range(AncestorsOf(call.before.heap, p)) })
       => /\ call.result = FALSE
          /\ <<heap, root, _nodes>> = <<call.before.heap, call.before.root, call.before.nodes>>

\* C4: each entity id has exactly one node: no node has two children with the
\* same entity id, size() is the number of nodes reachable from the root,
\* get_node(id) is the reachable node carrying id, and add_child(p, c) with c
\* already in the tree adds no node and changes nothing.
C4_OneNodePerEntityId ==
    /\ \A r \in TreeNodes :
           \A i, j \in 1..Len(heap[r].children) :
               heap[heap[r].children[i]].entity_id = heap[heap[r].children[j]].entity_id
                   => i = j
    /\ tree_size(_nodes) = Cardinality(ReachableFrom(heap, root))
    /\ \A id \in UUIDs :
           get_node(_nodes, id) # NoNode =>
               /\ get_node(_nodes, id) \in ReachableFrom(heap, root)
               /\ heap[get_node(_nodes, id)].entity_id = id
    /\ (/\ call.op = "add_child"
        /\ get_node(call.before.nodes, call.parent_id) # NoNode
        /\ get_node(call.before.nodes, call.child_id) # NoNode)
       => /\ root = call.before.root
          /\ _nodes = call.before.nodes
          /\ ReachableFrom(heap, root) = ReachableFrom(call.before.heap, call.before.root)

\* C5: after set_root(id) the tree holds only the root: size() is 1,
\* get_node(id) is the root, which has no parent and no children, and
\* get_node of every other id returns None.
C5_SetRootReplacesTree ==
    call.op = "set_root" =>
        /\ tree_size(_nodes) = 1
        /\ get_node(_nodes, call.entity_id) = root
        /\ root # NoNode
        /\ heap[root].parent = NoNode
        /\ heap[root].children = <<>>
        /\ \A id \in UUIDs \ {call.entity_id} : get_node(_nodes, id) = NoNode

IdsOf(h, nodes) == [i \in 1..Len(nodes) |-> h[nodes[i]].entity_id]

\* The state after set_root(r); add_child(r, c1) on a new tree.
AfterRootAndChild(st, r, c1) ==
    /\ st.heap = <<[entity_id |-> r, parent |-> NoNode, children |-> <<2>>],
                   [entity_id |-> c1, parent |-> 1, children |-> <<>>]>>
    /\ st.root = 1
    /\ st.nodes = dict_set(dict_set(Empty, r, 1), c1, 2)

\* The scenario of C23: after set_root(r); add_child(r, c1);
\* add_child(c1, c2) on a new tree, the ancestors of c2 are [c1, r], the
\* descendants of r are {c1, c2} and size() is 3.
C23_Scenario ==
    \A r \in UUIDs : \A c1 \in UUIDs \ {r} : \A c2 \in UUIDs \ {r, c1} :
        ( /\ call.op = "add_child" /\ call.parent_id = c1 /\ call.child_id = c2
          /\ AfterRootAndChild(call.before, r, c1) )
        => /\ IdsOf(heap, AncestorsOf(heap, get_node(_nodes, c2))) = <<c1, r>>
           /\ { heap[n].entity_id : n \in ReachableFrom(heap, root) \ {root} } = {c1, c2}
           /\ heap[root].entity_id = r
           /\ tree_size(_nodes) = 3

C23_ScenarioWitness ==
    /\ call.op = "add_child" /\ call.result
    /\ AfterRootAndChild(call.before, "u1", "u2")
    /\ call.parent_id = "u2" /\ call.child_id = "u3"

\* C23: in the scenario above the ancestors of c2 are [c1, r], the
\* descendants of r are {c1, c2} and size() is 3; in general the ancestor
\* chain of every node of the tree is finite and ends at the root.
C23_AncestorChainEndsAtRoot ==
    /\ C23_Scenario
    /\ \A n \in TreeNodes :
           LET chain == AncestorsOf(heap, n) IN
           \/ n = root /\ chain = <<>>
           \/ chain # <<>> /\ chain[Len(chain)] = root

---------------------------------------------------------------------------
(* EntityListHierarchyImpl.  Python indexes are 0-based: position i of the *)
(* list is element i + 1 of the sequence.                                  *)

\* The longest list a run builds.
MaxLen == 3

\* The indexes passed to insert and get.
Indexes == (0 - (MaxLen + 1))..(MaxLen + 1)

\* list.insert(index, x): a negative index counts from the end, and an index
\* beyond either end is clamped to that end.
list_insert(s, index, x) ==
    LET i0 == IF index < 0 THEN index + Len(s) ELSE index
        i == IF i0 < 0 THEN 0 ELSE IF i0 > Len(s) THEN Len(s) ELSE i0
    IN SubSeq(s, 1, i) \o <<x>> \o SubSeq(s, i + 1, Len(s))

\* list[index]: a negative index counts from the end.
list_getitem(s, index) ==
    LET i == IF index < 0 THEN index + Len(s) ELSE index IN
    IF i < 0 \/ i >= Len(s)
    THEN [raised |-> "IndexError", value |-> ""]
    ELSE [raised |-> "", value |-> s[i + 1]]

\* list.index(x) scanning from position i: the first position holding x, or
\* ValueError (-1 here, as index_of returns).
RECURSIVE list_index(_, _, _)
list_index(s, x, i) ==
    IF i >= Len(s) THEN -1
    ELSE IF s[i + 1] = x THEN i
    ELSE list_index(s, x, i + 1)

\* list.remove(x): drops the first occurrence of x.
list_remove(s, x) ==
    LET i == list_index(s, x, 0) IN
    SubSeq(s, 1, i) \o SubSeq(s, i + 2, Len(s))

\* add putting the id first.
List_add_front(s, entity_id) == <<entity_id>> \o s

\* EntityListHierarchyImpl.add
List_add(s, entity_id) == Append(s, entity_id)

\* EntityListHierarchyImpl.insert
List_insert(s, index, entity_id) == list_insert(s, index, entity_id)

\* EntityListHierarchyImpl.get
List_get(s, index) == list_getitem(s, index)

\* EntityListHierarchyImpl.index_of
List_index_of(s, entity_id) == list_index(s, entity_id, 0)

\* EntityListHierarchyImpl.size
List_size(s) == Len(s)

\* EntityListHierarchyImpl.is_empty
List_is_empty(s) == Len(s) = 0

InitList ==
    /\ component = "EntityListHierarchy"
    /\ RestIdle
    /\ entities = <<>>
    /\ call = [op |-> "construct"]
    /\ AspectIdle /\ TreeIdle /\ EntityIdle
    /\ SetIdle /\ DirIdle /\ MapIdle /\ CatalogIdle

\* hierarchy.add(entity_id)
ListAdd(entity_id) ==
    /\ Len(entities) < MaxLen
    /\ entities' = List_add(entities, entity_id)
    /\ call' = [op |-> "add", entity_id |-> entity_id, before |-> entities]
    /\ UNCHANGED <<component, restVars, aspectVars, treeVars, entityVars,
                   setVars, dirVars, mapVars, catalogVars>>

\* hierarchy.insert(index, entity_id)
ListInsert(index, entity_id) ==
    /\ Len(entities) < MaxLen
    /\ entities' = List_insert(entities, index, entity_id)
    /\ call' = [op |-> "insert", index |-> index, entity_id |-> entity_id,
                raised |-> "", before |-> entities]
    /\ UNCHANGED <<component, restVars, aspectVars, treeVars, entityVars,
                   setVars, dirVars, mapVars, catalogVars>>

\* hierarchy.remove(entity_id)
ListRemove(entity_id) ==
    /\ entities' = IF list_index(entities, entity_id, 0) = -1
                   THEN entities
                   ELSE list_remove(entities, entity_id)
    /\ call' = [op |-> "remove", entity_id |-> entity_id,
                result |-> (list_index(entities, entity_id, 0) # -1),
                before |-> entities]
    /\ UNCHANGED <<component, restVars, aspectVars, treeVars, entityVars,
                   setVars, dirVars, mapVars, catalogVars>>

\* hierarchy.get(index)
ListGet(index) ==
    /\ call' = [op |-> "get", index |-> index,
                raised |-> List_get(entities, index).raised,
                result |-> List_get(entities, index).value,
                before |-> entities]
    /\ UNCHANGED <<component, restVars, entities, aspectVars, treeVars, entityVars,
                   setVars, dirVars, mapVars, catalogVars>>

\* hierarchy.index_of(entity_id)
ListIndexOf(entity_id) ==
    /\ call' = [op |-> "index_of", entity_id |-> entity_id,
                result |-> List_index_of(entities, entity_id),
                before |-> entities]
    /\ UNCHANGED <<component, restVars, entities, aspectVars, treeVars, entityVars,
                   setVars, dirVars, mapVars, catalogVars>>

\* hierarchy.clear()
ListClear ==
    /\ entities' = <<>>
    /\ call' = [op |-> "clear", before |-> entities]
    /\ UNCHANGED <<component, restVars, aspectVars, treeVars, entityVars,
                   setVars, dirVars, mapVars, catalogVars>>

NextList ==
    \/ \E id \in UUIDs : ListAdd(id)
    \/ \E i \in Indexes, id \in UUIDs : ListInsert(i, id)
    \/ \E id \in UUIDs : ListRemove(id)
    \/ \E i \in Indexes : ListGet(i)
    \/ \E id \in UUIDs : ListIndexOf(id)
    \/ ListClear

SpecList == InitList /\ [][NextList]_vars

---------------------------------------------------------------------------
(* Properties of the list hierarchy.                                       *)

\* C9: get_at(index) outside [0, size) and insert(index, id) outside
\* [0, size] fail with an out-of-range error and leave the list unchanged;
\* insert(size, id) does what add(id) does; insert(i, id) with 0 <= i < size
\* puts id at position i and shifts the later ids up by one.
C9_IndexOutOfRangeFails ==
    /\ (call.op = "get" /\ (call.index < 0 \/ call.index >= Len(call.before)))
           => (call.raised = "IndexError" /\ entities = call.before)
    /\ (call.op = "insert" /\ (call.index < 0 \/ call.index > Len(call.before)))
           => (call.raised = "IndexError" /\ entities = call.before)
    /\ (call.op = "insert" /\ call.index = Len(call.before))
           => entities = Append(call.before, call.entity_id)
    /\ (call.op = "insert" /\ 0 <= call.index /\ call.index < Len(call.before))
           => /\ Len(entities) = Len(call.before) + 1
              /\ entities[call.index + 1] = call.entity_id
              /\ \A k \in 1..call.index : entities[k] = call.before[k]
              /\ \A k \in (call.index + 1)..Len(call.before) :
                     entities[k + 1] = call.before[k]

\* C10: add(id) appends: size() grows by exactly 1 even when id is already
\* present, the last position holds id and the earlier positions keep their
\* ids; index_of(id) is the smallest index holding id, -1 when id is absent;
\* so add(id1); add(id2); add(id1) gives size() == 3, get_at(2) == id1 and
\* index_of(id1) == 0.
C10_AddAppends ==
    /\ call.op = "add" =>
          /\ List_size(entities) = List_size(call.before) + 1
          /\ entities[Len(entities)] = call.entity_id
          /\ \A k \in 1..Len(call.before) : entities[k] = call.before[k]
    /\ call.op = "index_of" =>
          /\ call.result = -1 <=> \A k \in 1..Len(entities) : entities[k] # call.entity_id
          /\ call.result # -1 =>
                /\ call.result \in 0..(Len(entities) - 1)
                /\ entities[call.result + 1] = call.entity_id
                /\ \A k \in 1..call.result : entities[k] # call.entity_id
    /\ (call.op = "add" /\ call.before = <<"u1", "u2">> /\ call.entity_id = "u1") =>
          /\ List_size(entities) = 3
          /\ List_get(entities, 2) = [raised |-> "", value |-> "u1"]
          /\ List_index_of(entities, "u1") = 0

\* add(u1); add(u2); add(u1) was performed from the empty list.
C10_Witness ==
    /\ call.op = "add"
    /\ call.entity_id = "u1"
    /\ call.before = <<"u1", "u2">>
    /\ entities = <<"u1", "u2", "u1">>

---------------------------------------------------------------------------
(* EntityImpl.  Aspects are objects; an entity's mapping holds references  *)
(* to them.                                                                *)

\* The AspectImpl objects at hand: the name of the definition and the
\* property contents of each.  Objects 1 and 4 are distinct and equal.
AspectPool ==
    <<[definition |-> "person", properties |-> "p1", entity |-> "None"],
      [definition |-> "person", properties |-> "p2", entity |-> "None"],
      [definition |-> "address", properties |-> "p1", entity |-> "None"],
      [definition |-> "person", properties |-> "p1", entity |-> "None"]>>

AspectRefs == DOMAIN AspectPool

\* AspectImpl.__eq__ as @dataclass generates it: the same object, or equal
\* (definition, properties, entity) tuples.
aspect_eq(a, b) == a = b \/ AspectPool[a] = AspectPool[b]

\* EntityImpl(id=id): no aspects.
EntityImpl(id) == [id |-> id, aspects |-> Empty]

\* dict.__eq__: the same keys, bound to equal values.
aspects_eq(d1, d2) ==
    /\ DOMAIN d1 = DOMAIN d2
    /\ \A k \in DOMAIN d1 : aspect_eq(d1[k], d2[k])

\* EntityImpl.__eq__ as @dataclass generates it: equal (id, aspects) tuples.
Entity_eq(self, other) ==
    /\ self.id = other.id
    /\ aspects_eq(self.aspects, other.aspects)

\* EntityImpl.__hash__: @dataclass with eq and without frozen sets it to
\* None, so hash(entity) raises TypeError.
Entity_hash(self) == [raised |-> "TypeError: unhashable type", value |-> 0]

\* A variant of add_aspect that keeps an aspect already held under the name.
Entity_add_aspect_keep_first(self, aspect) ==
    IF AspectPool[aspect].definition \in DOMAIN self.aspects
    THEN self
    ELSE [self EXCEPT !.aspects = dict_set(@, AspectPool[aspect].definition, aspect)]

\* EntityImpl.add_aspect: the aspect mapping afterwards.
Entity_add_aspect(self, aspect) ==
    [self EXCEPT !.aspects = dict_set(@, AspectPool[aspect].definition, aspect)]

\* EntityImpl.has_aspect
Entity_has_aspect(self, aspect_name) == aspect_name \in DOMAIN self.aspects

\* EntityImpl.remove_aspect: what it returns and the entity afterwards.
Entity_remove_aspect(self, aspect_name) ==
    IF aspect_name \in DOMAIN self.aspects
    THEN [result |-> TRUE,
          entity |-> [self EXCEPT !.aspects =
                         [n \in (DOMAIN self.aspects) \ {aspect_name} |-> self.aspects[n]]]]
    ELSE [result |-> FALSE, entity |-> self]

\* EntityImpl.clear_aspects
Entity_clear_aspects(self) == [self EXCEPT !.aspects = Empty]

\* EntityImpl.get_aspect: dict.get, with reference 0 for None
Entity_get_aspect(self, aspect_name) ==
    IF aspect_name \in DOMAIN self.aspects THEN self.aspects[aspect_name] ELSE 0

\* EntityImpl.aspect_names
Entity_aspect_names(self) == DOMAIN self.aspects

\* EntityImpl.aspect_count
Entity_aspect_count(self) == Cardinality(DOMAIN self.aspects)

AspectNames == {"person", "address"}

Slots == {1, 2}

\* A variant of copy that hands its own aspects dict to the new entity.
Entity_copy_shared_dict(self, uuid) ==
    [entity |-> [id |-> uuid, aspects |-> self.aspects], dict |-> "same"]

\* EntityImpl.copy: EntityImpl(id=uuid4(), aspects=self.aspects.copy());
\* dict.copy() is a new dict object bound to the same values.
Entity_copy(self, uuid) ==
    [entity |-> [id |-> uuid, aspects |-> self.aspects], dict |-> "copy"]

\* The entities after the aspects dict of ents[slot] became the one of e:
\* every entity holding the same dict object sees the change.
WriteThrough(slot, e) ==
    [s \in Slots |->
        IF dictOf[s] = dictOf[slot] THEN [ents[s] EXCEPT !.aspects = e.aspects]
        ELSE ents[s]]

\* Two entities, built with identifiers that may coincide (an entity loaded
\* twice), each with a dict of its own.
InitEntity ==
    /\ component = "Entity"
    /\ RestIdle
    /\ ents \in [Slots -> {EntityImpl(id) : id \in UUIDs}]
    /\ dictOf = [s \in Slots |-> s]
    /\ copyOf = [s \in Slots |-> 0]
    /\ call = [op |-> "construct"]
    /\ AspectIdle /\ TreeIdle /\ ListIdle
    /\ SetIdle /\ DirIdle /\ MapIdle /\ CatalogIdle

\* ents[slot].add_aspect(aspect)
EntityAddAspect(slot, aspect) ==
    /\ ents' = WriteThrough(slot, Entity_add_aspect(ents[slot], aspect))
    /\ call' = [op |-> "add_aspect", slot |-> slot, aspect |-> aspect, before |-> ents]
    /\ UNCHANGED <<component, restVars, dictOf, copyOf, aspectVars, treeVars, listVars,
                   setVars, dirVars, mapVars, catalogVars>>

\* ents[slot].remove_aspect(aspect_name)
EntityRemoveAspect(slot, aspect_name) ==
    /\ ents' = WriteThrough(slot, Entity_remove_aspect(ents[slot], aspect_name).entity)
    /\ call' = [op |-> "remove_aspect", slot |-> slot, aspect_name |-> aspect_name,
                result |-> Entity_remove_aspect(ents[slot], aspect_name).result,
                before |-> ents]
    /\ UNCHANGED <<component, restVars, dictOf, copyOf, aspectVars, treeVars, listVars,
                   setVars, dirVars, mapVars, catalogVars>>

\* ents[slot].clear_aspects()
EntityClearAspects(slot) ==
    /\ ents' = WriteThrough(slot, Entity_clear_aspects(ents[slot]))
    /\ call' = [op |-> "clear_aspects", slot |-> slot, before |-> ents]
    /\ UNCHANGED <<component, restVars, dictOf, copyOf, aspectVars, treeVars, listVars,
                   setVars, dirVars, mapVars, catalogVars>>

\* ents[slot].get_aspect(aspect_name)
EntityGetAspect(slot, aspect_name) ==
    /\ call' = [op |-> "get_aspect", slot |-> slot, aspect_name |-> aspect_name,
                raised |-> "", result |-> Entity_get_aspect(ents[slot], aspect_name),
                before |-> ents]
    /\ UNCHANGED <<component, restVars, entityVars, aspectVars, treeVars, listVars,
                   setVars, dirVars, mapVars, catalogVars>>

\* ents[dst] = ents[src].copy(): uuid4() draws an identifier no entity at
\* hand carries.
EntityCopy(src, dst, uuid) ==
    /\ src # dst
    /\ uuid \notin {ents[s].id : s \in Slots}
    /\ LET r == Entity_copy(ents[src], uuid) IN
       /\ ents' = [ents EXCEPT ![dst] = r.entity]
       /\ dictOf' = [dictOf EXCEPT ![dst] = IF r.dict = "same" THEN dictOf[src] ELSE dst]
    /\ copyOf' = [s \in Slots |-> IF s = dst THEN src ELSE 0]
    /\ call' = [op |-> "copy", slot |-> src, dst |-> dst, before |-> ents]
    /\ UNCHANGED <<component, restVars, aspectVars, treeVars, listVars,
                   setVars, dirVars, mapVars, catalogVars>>

NextEntity ==
    \/ \E slot \in Slots, a \in AspectRefs : EntityAddAspect(slot, a)
    \/ \E slot \in Slots, n \in AspectNames : EntityRemoveAspect(slot, n)
    \/ \E slot \in Slots : EntityClearAspects(slot)
    \/ \E slot \in Slots, n \in AspectNames : EntityGetAspect(slot, n)
    \/ \E src \in Slots, dst \in Slots, uuid \in UUIDs : EntityCopy(src, dst, uuid)

SpecEntity == InitEntity /\ [][NextEntity]_vars

---------------------------------------------------------------------------
(* Properties of Entity equality.                                          *)

\* C8: two Entity instances are equal, and have equal hashes, if and only if
\* their identifiers are equal, whatever their aspect mappings hold.
C8_EqualityByIdentifier ==
    \A i \in Slots, j \in Slots :
        /\ Entity_eq(ents[i], ents[j]) <=> ents[i].id = ents[j].id
        /\ Entity_hash(ents[i]).raised = ""
        /\ Entity_hash(ents[j]).raised = ""
        /\ Entity_hash(ents[i]).value = Entity_hash(ents[j]).value
               <=> ents[i].id = ents[j].id

\* C20: add_aspect(a) stores a under the key a.definition.name, replacing an
\* aspect already under that name and leaving the other names untouched;
\* remove_aspect(name) returns True if and only if name was present and
\* afterwards has_aspect(name) is False; after any sequence of add_aspect,
\* remove_aspect and clear_aspects every key equals the definition name of
\* the aspect stored under it and aspect_count() is the number of names held.
C20_AspectsKeyedByDefinitionName ==
    /\ call.op = "add_aspect" =>
           LET e == ents[call.slot]
               b == call.before[call.slot]
               name == AspectPool[call.aspect].definition
           IN  /\ Entity_get_aspect(e, name) = call.aspect
               /\ \A n \in AspectNames \ {name} :
                      Entity_get_aspect(e, n) = Entity_get_aspect(b, n)
               /\ \A s \in Slots \ {call.slot} : ents[s] = call.before[s]
    /\ call.op = "remove_aspect" =>
           LET e == ents[call.slot]
               b == call.before[call.slot]
           IN  /\ call.result <=> call.aspect_name \in DOMAIN b.aspects
               /\ ~Entity_has_aspect(e, call.aspect_name)
               /\ \A n \in AspectNames \ {call.aspect_name} :
                      Entity_get_aspect(e, n) = Entity_get_aspect(b, n)
    /\ \A s \in Slots :
           /\ \A k \in Entity_aspect_names(ents[s]) :
                  AspectPool[ents[s].aspects[k]].definition = k
           /\ Entity_aspect_count(ents[s])
                  = Cardinality({n \in AspectNames : Entity_has_aspect(ents[s], n)})

\* An aspect replaces a different aspect held under its definition name while
\* another name is held too.
C20_Witness ==
    /\ call.op = "add_aspect"
    /\ Entity_get_aspect(call.before[call.slot], AspectPool[call.aspect].definition)
           \notin {0, call.aspect}
    /\ Entity_get_aspect(ents[call.slot], AspectPool[call.aspect].definition) = call.aspect
    /\ Entity_aspect_count(ents[call.slot]) = 2

\* C21: copy() returns an Entity with a fresh identifier different from the
\* original's whose aspect mapping binds the same names to the very same
\* Aspect objects; the two mappings are independent (add_aspect,
\* remove_aspect or clear_aspects on either leaves the other's aspects
\* unchanged); copy() changes neither the original's identifier nor its
\* aspects.
C21_CopyIsShallowAndIndependent ==
    /\ call.op = "copy" =>
           /\ ents[call.dst].id # call.before[call.slot].id
           /\ ents[call.dst].id \notin {call.before[s].id : s \in Slots}
           /\ Entity_aspect_names(ents[call.dst])
                  = Entity_aspect_names(call.before[call.slot])
           /\ \A n \in AspectNames :
                  Entity_get_aspect(ents[call.dst], n)
                      = Entity_get_aspect(call.before[call.slot], n)
           /\ ents[call.slot] = call.before[call.slot]
    /\ call.op \in {"add_aspect", "remove_aspect", "clear_aspects"} =>
           \A s \in Slots \ {call.slot} :
               (copyOf[s] = call.slot \/ copyOf[call.slot] = s) =>
                   ents[s] = call.before[s]

\* The original lost an aspect that its copy still holds: the very object
\* the original held.
C21_Witness ==
    /\ call.op = "remove_aspect" /\ call.result
    /\ copyOf[2] = 1 /\ call.slot = 1
    /\ ~Entity_has_aspect(ents[1], call.aspect_name)
    /\ Entity_get_aspect(ents[2], call.aspect_name)
           = call.before[1].aspects[call.aspect_name]
    /\ ents[2].id # ents[1].id

---------------------------------------------------------------------------
(* EntitySetHierarchyImpl: a Python set of entity ids.                     *)

\* A variant of add that reports success without comparing the sizes.
Set_add_always_true(s, entity_id) ==
    [result |-> TRUE, entities |-> s \cup {entity_id}]

\* add(entity_id): the size before and after set.add decides the result.
Set_add(s, entity_id) ==
    LET size_before == Cardinality(s)
        after == s \cup {entity_id}
    IN  [result |-> Cardinality(after) > size_before, entities |-> after]

\* remove(entity_id): set.remove raises KeyError for a missing element,
\* which the method turns into False.
Set_remove(s, entity_id) ==
    IF entity_id \in s
    THEN [result |-> TRUE, entities |-> s \ {entity_id}]
    ELSE [result |-> FALSE, entities |-> s]

Set_contains(s, entity_id) == entity_id \in s
Set_size(s) == Cardinality(s)
Set_is_empty(s) == Cardinality(s) = 0

\* What a call record remembers of the call before it.
Last(c) ==
    IF c.op = "construct"
    THEN [op |-> "construct", arg |-> "", result |-> FALSE]
    ELSE [op |-> c.op, arg |-> c.arg, result |-> c.result]

\* EntitySetHierarchyImpl(name=...)
InitSet ==
    /\ component = "EntitySetHierarchy"
    /\ RestIdle
    /\ set_entities = {}
    /\ call = [op |-> "construct"]
    /\ AspectIdle /\ TreeIdle /\ ListIdle /\ EntityIdle
    /\ DirIdle /\ MapIdle /\ CatalogIdle

\* hierarchy.add(entity_id)
SetAdd(entity_id) ==
    LET r == Set_add(set_entities, entity_id) IN
    /\ set_entities' = r.entities
    /\ call' = [op |-> "add", arg |-> entity_id, result |-> r.result,
                before |-> set_entities, prev |-> Last(call)]
    /\ UNCHANGED <<component, restVars, aspectVars, treeVars, listVars, entityVars,
                   dirVars, mapVars, catalogVars>>

\* hierarchy.remove(entity_id)
SetRemove(entity_id) ==
    LET r == Set_remove(set_entities, entity_id) IN
    /\ set_entities' = r.entities
    /\ call' = [op |-> "remove", arg |-> entity_id, result |-> r.result,
                before |-> set_entities, prev |-> Last(call)]
    /\ UNCHANGED <<component, restVars, aspectVars, treeVars, listVars, entityVars,
                   dirVars, mapVars, catalogVars>>

\* hierarchy.contains(entity_id)
SetContains(entity_id) ==
    /\ call' = [op |-> "contains", arg |-> entity_id,
                result |-> Set_contains(set_entities, entity_id),
                before |-> set_entities, prev |-> Last(call)]
    /\ UNCHANGED <<component, restVars, set_entities, aspectVars, treeVars, listVars, entityVars,
                   dirVars, mapVars, catalogVars>>

\* hierarchy.clear()
SetClear ==
    /\ set_entities' = {}
    /\ call' = [op |-> "clear", arg |-> "", result |-> FALSE,
                before |-> set_entities, prev |-> Last(call)]
    /\ UNCHANGED <<component, restVars, aspectVars, treeVars, listVars, entityVars,
                   dirVars, mapVars, catalogVars>>

NextSet ==
    \/ \E id \in UUIDs : SetAdd(id)
    \/ \E id \in UUIDs : SetRemove(id)
    \/ \E id \in UUIDs : SetContains(id)
    \/ SetClear

SpecSet == InitSet /\ [][NextSet]_vars

---------------------------------------------------------------------------
(* Properties of the set hierarchy.                                        *)

\* C11: add(id) returns True if and only if id was absent, remove(id)
\* returns True if and only if id was present, size() is the number of
\* distinct ids contained after any sequence of add, remove and clear, and
\* add(id) twice on an empty set returns True then False with size() = 1.
C11_SetAddRemove ==
    /\ call.op = "add" =>
           /\ call.result <=> call.arg \notin call.before
           /\ set_entities = call.before \cup {call.arg}
    /\ call.op = "remove" =>
           /\ call.result <=> call.arg \in call.before
           /\ set_entities = call.before \ {call.arg}
    /\ call.op = "clear" => set_entities = {}
    /\ Set_size(set_entities) = Cardinality({id \in UUIDs : Set_contains(set_entities, id)})
    /\ ( /\ call.op = "add" /\ call.prev.op = "add"
         /\ call.prev.arg = call.arg /\ call.before = {call.arg}
         /\ call.prev.result )
       => (~call.result /\ Set_size(set_entities) = 1)

C11_Witness ==
    /\ call.op = "add" /\ call.prev.op = "add"
    /\ call.prev.arg = call.arg /\ call.prev.result
    /\ ~call.result /\ Set_size(set_entities) = 1

---------------------------------------------------------------------------
(* EntityDirectoryHierarchyImpl: a Python dict from path strings to ids.   *)

Paths == {"/a", "/a/b", "/a/c"}

\* The value of an absent UUID result (Python's None).
NoId == "None"

\* dict.get(k) with the default None
Dir_lookup(d, path) == IF path \in DOMAIN d THEN d[path] ELSE NoId

\* dict without the key k
dict_del(d, k) == [n \in (DOMAIN d) \ {k} |-> d[n]]

\* The path one segment up, or the path itself at the top.
Dirname(path) == IF path \in {"/a/b", "/a/c"} THEN "/a" ELSE path

\* A variant of put that splits the path and also enters its parent.
Dir_put_segmented(d, path, entity_id) ==
    [result |-> Dir_lookup(d, path),
     directory |-> dict_set(dict_set(d, Dirname(path), entity_id), path, entity_id)]

\* put(path, entity_id)
Dir_put(d, path, entity_id) ==
    LET old_value == Dir_lookup(d, path)
    IN  [result |-> old_value, directory |-> dict_set(d, path, entity_id)]

\* get(path)
Dir_get(d, path) == Dir_lookup(d, path)

\* remove(path): dict.pop(path, None)
Dir_remove(d, path) ==
    IF path \in DOMAIN d
    THEN [result |-> d[path], directory |-> dict_del(d, path)]
    ELSE [result |-> NoId, directory |-> d]

Dir_contains_path(d, path) == path \in DOMAIN d
Dir_paths(d) == DOMAIN d
Dir_size(d) == Cardinality(DOMAIN d)
Dir_is_empty(d) == Cardinality(DOMAIN d) = 0

\* EntityDirectoryHierarchyImpl(name=...)
InitDir ==
    /\ component = "EntityDirectoryHierarchy"
    /\ RestIdle
    /\ directory = Empty
    /\ call = [op |-> "construct"]
    /\ AspectIdle /\ TreeIdle /\ ListIdle /\ EntityIdle
    /\ SetIdle /\ MapIdle /\ CatalogIdle

\* hierarchy.put(path, entity_id)
DirPut(path, entity_id) ==
    LET r == Dir_put(directory, path, entity_id) IN
    /\ directory' = r.directory
    /\ call' = [op |-> "put", arg |-> path, id |-> entity_id, result |-> r.result,
                before |-> directory, prev |-> Last(call)]
    /\ UNCHANGED <<component, restVars, aspectVars, treeVars, listVars, entityVars,
                   setVars, mapVars, catalogVars>>

\* hierarchy.get(path)
DirGet(path) ==
    /\ call' = [op |-> "get", arg |-> path, id |-> NoId,
                result |-> Dir_get(directory, path),
                before |-> directory, prev |-> Last(call)]
    /\ UNCHANGED <<component, restVars, directory, aspectVars, treeVars, listVars, entityVars,
                   setVars, mapVars, catalogVars>>

\* hierarchy.remove(path)
DirRemove(path) ==
    LET r == Dir_remove(directory, path) IN
    /\ directory' = r.directory
    /\ call' = [op |-> "remove", arg |-> path, id |-> NoId, result |-> r.result,
                before |-> directory, prev |-> Last(call)]
    /\ UNCHANGED <<component, restVars, aspectVars, treeVars, listVars, entityVars,
                   setVars, mapVars, catalogVars>>

\* hierarchy.clear()
DirClear ==
    /\ directory' = Empty
    /\ call' = [op |-> "clear", arg |-> "", id |-> NoId, result |-> NoId,
                before |-> directory, prev |-> Last(call)]
    /\ UNCHANGED <<component, restVars, aspectVars, treeVars, listVars, entityVars,
                   setVars, mapVars, catalogVars>>

NextDir ==
    \/ \E path \in Paths, id \in UUIDs : DirPut(path, id)
    \/ \E path \in Paths : DirGet(path)
    \/ \E path \in Paths : DirRemove(path)
    \/ DirClear

SpecDir == InitDir /\ [][NextDir]_vars

---------------------------------------------------------------------------
(* Properties of the directory hierarchy.                                  *)

\* C12: the directory is a flat map from whole keys to ids: put(key, id)
\* returns the id previously stored under exactly that key (None if none)
\* and afterwards get(key) = id; no other key is created or changed by a put,
\* so after putting "/a/b" and "/a/c" the key "/a" is absent and size()
\* counts only the keys that were put.
C12_DirectoryFlat ==
    /\ call.op = "put" =>
           /\ call.result = (IF call.arg \in DOMAIN call.before
                             THEN call.before[call.arg] ELSE NoId)
           /\ Dir_get(directory, call.arg) = call.id
           /\ \A k \in Paths \ {call.arg} :
                  /\ Dir_contains_path(directory, k) <=> k \in DOMAIN call.before
                  /\ Dir_get(directory, k) = Dir_lookup(call.before, k)
           /\ Dir_size(directory) = Cardinality(DOMAIN call.before \cup {call.arg})
    /\ ( /\ call.op = "put" /\ call.arg = "/a/c"
         /\ call.prev.op = "put" /\ call.prev.arg = "/a/b"
         /\ call.prev.result = NoId /\ DOMAIN call.before = {"/a/b"} )
       => /\ ~Dir_contains_path(directory, "/a")
          /\ Dir_get(directory, "/a") = NoId
          /\ Dir_paths(directory) = {"/a/b", "/a/c"}
          /\ Dir_size(directory) = 2

C12_Witness ==
    /\ call.op = "put" /\ call.arg = "/a/c"
    /\ call.prev.op = "put" /\ call.prev.arg = "/a/b" /\ call.prev.result = NoId
    /\ DOMAIN call.before = {"/a/b"}
    /\ Dir_size(directory) = 2 /\ ~Dir_contains_path(directory, "/a")

---------------------------------------------------------------------------
(* AspectMapHierarchyImpl: a Python dict from entity ids to Aspect         *)
(* objects; an Aspect is its reference into AspectPool.                    *)

\* The reference that stands for Python's None where an Aspect is expected.
NoAspect == 0

\* dict.get(entity_id) with the default None
Map_lookup(m, entity_id) == IF entity_id \in DOMAIN m THEN m[entity_id] ELSE NoAspect

\* A variant of put that returns the aspect now stored.
Map_put_returns_new(m, entity_id, aspect) ==
    [result |-> aspect, aspects |-> dict_set(m, entity_id, aspect)]

\* put(entity_id, aspect)
Map_put(m, entity_id, aspect) ==
    LET old_value == Map_lookup(m, entity_id)
    IN  [result |-> old_value, aspects |-> dict_set(m, entity_id, aspect)]

\* get(entity_id)
Map_get(m, entity_id) == Map_lookup(m, entity_id)

\* remove(entity_id): dict.pop(entity_id, None)
Map_remove(m, entity_id) ==
    IF entity_id \in DOMAIN m
    THEN [result |-> m[entity_id], aspects |-> dict_del(m, entity_id)]
    ELSE [result |-> NoAspect, aspects |-> m]

Map_contains_key(m, entity_id) == entity_id \in DOMAIN m
Map_keys(m) == DOMAIN m
Map_size(m) == Cardinality(DOMAIN m)
Map_is_empty(m) == Cardinality(DOMAIN m) = 0

\* AspectMapHierarchyImpl(name=...)
InitMap ==
    /\ component = "AspectMapHierarchy"
    /\ RestIdle
    /\ aspects = Empty
    /\ call = [op |-> "construct"]
    /\ AspectIdle /\ TreeIdle /\ ListIdle /\ EntityIdle
    /\ SetIdle /\ DirIdle /\ CatalogIdle

\* hierarchy.put(entity_id, aspect)
MapPut(entity_id, aspect) ==
    LET r == Map_put(aspects, entity_id, aspect) IN
    /\ aspects' = r.aspects
    /\ call' = [op |-> "put", arg |-> entity_id, aspect |-> aspect,
                result |-> r.result, before |-> aspects]
    /\ UNCHANGED <<component, restVars, aspectVars, treeVars, listVars, entityVars,
                   setVars, dirVars, catalogVars>>

\* hierarchy.get(entity_id)
MapGet(entity_id) ==
    /\ call' = [op |-> "get", arg |-> entity_id, aspect |-> NoAspect,
                result |-> Map_get(aspects, entity_id), before |-> aspects]
    /\ UNCHANGED <<component, restVars, aspects, aspectVars, treeVars, listVars, entityVars,
                   setVars, dirVars, catalogVars>>

\* hierarchy.remove(entity_id)
MapRemove(entity_id) ==
    LET r == Map_remove(aspects, entity_id) IN
    /\ aspects' = r.aspects
    /\ call' = [op |-> "remove", arg |-> entity_id, aspect |-> NoAspect,
                result |-> r.result, before |-> aspects]
    /\ UNCHANGED <<component, restVars, aspectVars, treeVars, listVars, entityVars,
                   setVars, dirVars, catalogVars>>

\* hierarchy.clear()
MapClear ==
    /\ aspects' = Empty
    /\ call' = [op |-> "clear", arg |-> "", aspect |-> NoAspect,
                result |-> NoAspect, before |-> aspects]
    /\ UNCHANGED <<component, restVars, aspectVars, treeVars, listVars, entityVars,
                   setVars, dirVars, catalogVars>>

NextMap ==
    \/ \E id \in UUIDs, a \in AspectRefs : MapPut(id, a)
    \/ \E id \in UUIDs : MapGet(id)
    \/ \E id \in UUIDs : MapRemove(id)
    \/ MapClear

SpecMap == InitMap /\ [][NextMap]_vars

---------------------------------------------------------------------------
(* Properties of the aspect map hierarchy.                                 *)

\* C13: the map holds at most one Aspect per entity id: put(id, a) returns
\* the Aspect previously stored under id (None if none), afterwards get(id)
\* is a and size() counts the distinct ids; remove(id) returns the stored
\* Aspect (None if absent) and afterwards contains_key(id) is False.
C13_OneAspectPerId ==
    /\ call.op = "put" =>
           /\ call.result = (IF call.arg \in DOMAIN call.before
                             THEN call.before[call.arg] ELSE NoAspect)
           /\ Map_get(aspects, call.arg) = call.aspect
           /\ Map_keys(aspects) = DOMAIN call.before \cup {call.arg}
           /\ \A id \in UUIDs \ {call.arg} :
                  Map_get(aspects, id) = Map_lookup(call.before, id)
    /\ call.op = "remove" =>
           /\ call.result = (IF call.arg \in DOMAIN call.before
                             THEN call.before[call.arg] ELSE NoAspect)
           /\ ~Map_contains_key(aspects, call.arg)
           /\ \A id \in UUIDs \ {call.arg} :
                  Map_get(aspects, id) = Map_lookup(call.before, id)
    /\ Map_size(aspects) = Cardinality({id \in UUIDs : Map_contains_key(aspects, id)})

\* A put that evicts a different Aspect object with an equal value.
C13_Witness ==
    /\ call.op = "put"
    /\ call.result # NoAspect /\ call.result # call.aspect
    /\ aspect_eq(call.result, call.aspect)
    /\ Map_get(aspects, call.arg) = call.aspect
    /\ Map_size(aspects) = 2

---------------------------------------------------------------------------
(* CatalogImpl: the AspectDef registry and the Hierarchy registry.         *)

CatalogSpecies == {"SOURCE", "SINK", "MIRROR", "CACHE", "CLONE", "FORK"}

\* CatalogSpecies.is_read_only
is_read_only(self) == self \in {"MIRROR", "CACHE"}

\* A variant of is_writable that leaves SINK out.
is_writable_without_sink(self) == self \in {"SOURCE", "CLONE", "FORK"}

\* CatalogSpecies.is_writable
is_writable(self) == self \in {"SOURCE", "SINK", "CLONE", "FORK"}

\* CatalogSpecies.is_authoritative
is_authoritative(self) == self = "SOURCE"

\* CatalogSpecies.is_temporary
is_temporary(self) == self = "CACHE"

\* CatalogSpecies.is_replica
is_replica(self) == self \in {"MIRROR", "CACHE", "CLONE"}

\* CatalogSpecies.can_diverge
can_diverge(self) == self \in {"CLONE", "FORK", "CACHE"}

\* The AspectDefImpl objects at hand; objects 1 and 2 carry the same name.
AspectDefPool ==
    <<[name |-> "person", properties |-> "p1"],
      [name |-> "person", properties |-> "p2"],
      [name |-> "address", properties |-> "p1"]>>

AspectDefRefs == DOMAIN AspectDefPool

\* The Hierarchy objects at hand; objects 1 and 2 carry the same name.
HierarchyPool ==
    <<[name |-> "h1", hierarchy_type |-> "EL"],
      [name |-> "h1", hierarchy_type |-> "ES"],
      [name |-> "h2", hierarchy_type |-> "ED"]>>

HierarchyRefs == DOMAIN HierarchyPool

\* The names looked up or removed; "h3" is carried by no object.
HierarchyNames == {"h1", "h2", "h3"}

\* The reference that stands for Python's None where a Hierarchy is expected.
NoHierarchy == 0

\* A variant of add_aspect_def that overwrites instead of raising.
Catalog_add_aspect_def_overwrite(defs, aspect_def) ==
    [raised |-> "", _aspect_defs |-> dict_set(defs, AspectDefPool[aspect_def].name, aspect_def)]

\* add_aspect_def(aspect_def)
Catalog_add_aspect_def(defs, aspect_def) ==
    IF AspectDefPool[aspect_def].name \in DOMAIN defs
    THEN [raised |-> "ValueError: already exists in catalog", _aspect_defs |-> defs]
    ELSE [raised |-> "",
          _aspect_defs |-> dict_set(defs, AspectDefPool[aspect_def].name, aspect_def)]

\* remove_aspect_def(aspect_name)
Catalog_remove_aspect_def(defs, aspect_name) ==
    IF aspect_name \in DOMAIN defs
    THEN [result |-> TRUE, _aspect_defs |-> dict_del(defs, aspect_name)]
    ELSE [result |-> FALSE, _aspect_defs |-> defs]

\* A variant of get_hierarchy that answers an unknown name with the object
\* it is given as a default.
Catalog_get_hierarchy_or_default(hs, hierarchy_name) ==
    IF hierarchy_name \in DOMAIN hs THEN hs[hierarchy_name] ELSE 1

\* get_hierarchy(hierarchy_name): dict.get
Catalog_get_hierarchy(hs, hierarchy_name) ==
    IF hierarchy_name \in DOMAIN hs THEN hs[hierarchy_name] ELSE NoHierarchy

\* A variant of add_hierarchy that keeps the hierarchy registered first.
Catalog_add_hierarchy_keep_first(hs, hierarchy) ==
    IF HierarchyPool[hierarchy].name \in DOMAIN hs
    THEN hs
    ELSE dict_set(hs, HierarchyPool[hierarchy].name, hierarchy)

\* A variant of add_hierarchy that a read-only catalog ignores.
Catalog_add_hierarchy_unless_read_only(hs, hierarchy) ==
    IF is_read_only(species)
    THEN hs
    ELSE dict_set(hs, HierarchyPool[hierarchy].name, hierarchy)

\* add_hierarchy(hierarchy)
Catalog_add_hierarchy(hs, hierarchy) ==
    dict_set(hs, HierarchyPool[hierarchy].name, hierarchy)

\* remove_hierarchy(hierarchy_name)
Catalog_remove_hierarchy(hs, hierarchy_name) ==
    IF hierarchy_name \in DOMAIN hs
    THEN [result |-> TRUE, _hierarchies |-> dict_del(hs, hierarchy_name)]
    ELSE [result |-> FALSE, _hierarchies |-> hs]

Catalog_has_hierarchy(hs, hierarchy_name) == hierarchy_name \in DOMAIN hs
Catalog_hierarchy_names(hs) == DOMAIN hs

\* The registries as a call record remembers them.
Registries == [_aspect_defs |-> _aspect_defs, _hierarchies |-> _hierarchies]

\* CatalogImpl(species=..., version=...)
InitCatalog ==
    /\ component = "Catalog"
    /\ RestIdle
    /\ species \in CatalogSpecies
    /\ _aspect_defs = Empty
    /\ _hierarchies = Empty
    /\ call = [op |-> "construct"]
    /\ AspectIdle /\ TreeIdle /\ ListIdle /\ EntityIdle
    /\ SetIdle /\ DirIdle /\ MapIdle

\* catalog.add_aspect_def(aspect_def)
AddAspectDef(aspect_def) ==
    LET r == Catalog_add_aspect_def(_aspect_defs, aspect_def) IN
    /\ _aspect_defs' = r._aspect_defs
    /\ call' = [op |-> "add_aspect_def", arg |-> AspectDefPool[aspect_def].name,
                obj |-> aspect_def, raised |-> r.raised, result |-> FALSE,
                before |-> Registries, prev |-> Last(call)]
    /\ UNCHANGED <<component, restVars, species, _hierarchies, aspectVars, treeVars, listVars, entityVars,
                   setVars, dirVars, mapVars>>

\* catalog.remove_aspect_def(aspect_name)
RemoveAspectDef(aspect_name) ==
    LET r == Catalog_remove_aspect_def(_aspect_defs, aspect_name) IN
    /\ _aspect_defs' = r._aspect_defs
    /\ call' = [op |-> "remove_aspect_def", arg |-> aspect_name,
                obj |-> 0, raised |-> "", result |-> r.result,
                before |-> Registries, prev |-> Last(call)]
    /\ UNCHANGED <<component, restVars, species, _hierarchies, aspectVars, treeVars, listVars, entityVars,
                   setVars, dirVars, mapVars>>

\* catalog.add_hierarchy(hierarchy)
AddHierarchy(hierarchy) ==
    /\ _hierarchies' = Catalog_add_hierarchy(_hierarchies, hierarchy)
    /\ call' = [op |-> "add_hierarchy", arg |-> HierarchyPool[hierarchy].name,
                obj |-> hierarchy, raised |-> "", result |-> FALSE,
                before |-> Registries, prev |-> Last(call)]
    /\ UNCHANGED <<component, restVars, species, _aspect_defs, aspectVars, treeVars, listVars, entityVars,
                   setVars, dirVars, mapVars>>

\* catalog.remove_hierarchy(hierarchy_name)
RemoveHierarchy(hierarchy_name) ==
    LET r == Catalog_remove_hierarchy(_hierarchies, hierarchy_name) IN
    /\ _hierarchies' = r._hierarchies
    /\ call' = [op |-> "remove_hierarchy", arg |-> hierarchy_name,
                obj |-> 0, raised |-> "", result |-> r.result,
                before |-> Registries, prev |-> Last(call)]
    /\ UNCHANGED <<component, restVars, species, _aspect_defs, aspectVars, treeVars, listVars, entityVars,
                   setVars, dirVars, mapVars>>

\* The six predicates of catalog.species
SpeciesPredicates ==
    /\ call' = [op |-> "species", arg |-> species, obj |-> 0, raised |-> "",
                result |-> [is_read_only |-> is_read_only(species),
                            is_writable |-> is_writable(species),
                            is_authoritative |-> is_authoritative(species),
                            is_temporary |-> is_temporary(species),
                            is_replica |-> is_replica(species),
                            can_diverge |-> can_diverge(species)],
                before |-> Registries, prev |-> Last(call)]
    /\ UNCHANGED <<component, restVars, catalogVars, aspectVars, treeVars, listVars, entityVars,
                   setVars, dirVars, mapVars>>

\* catalog.get_hierarchy(hierarchy_name)
GetHierarchy(hierarchy_name) ==
    /\ call' = [op |-> "get_hierarchy", arg |-> hierarchy_name,
                obj |-> 0, raised |-> "",
                result |-> Catalog_get_hierarchy(_hierarchies, hierarchy_name),
                before |-> Registries, prev |-> Last(call)]
    /\ UNCHANGED <<component, restVars, catalogVars, aspectVars, treeVars, listVars, entityVars,
                   setVars, dirVars, mapVars>>

NextCatalog ==
    \/ SpeciesPredicates
    \/ \E n \in HierarchyNames : GetHierarchy(n)
    \/ \E d \in AspectDefRefs : AddAspectDef(d)
    \/ \E n \in AspectNames : RemoveAspectDef(n)
    \/ \E h \in HierarchyRefs : AddHierarchy(h)
    \/ \E n \in HierarchyNames : RemoveHierarchy(n)

SpecCatalog == InitCatalog /\ [][NextCatalog]_vars

---------------------------------------------------------------------------
(* Properties of the catalog registries.                                   *)

\* C14: add_aspect_def(d) fails with "already exists" if and only if an
\* AspectDef of the same name is registered; on failure the registry is
\* unchanged and still maps the name to the definition registered first;
\* after remove_aspect_def(name) returned True, a definition of that name
\* can be added again.
C14_DuplicateAspectDef ==
    /\ call.op = "add_aspect_def" =>
           /\ call.raised = "ValueError: already exists in catalog"
                  <=> call.arg \in DOMAIN call.before._aspect_defs
           /\ call.raised # "" =>
                  /\ _aspect_defs = call.before._aspect_defs
                  /\ _aspect_defs[call.arg] = call.before._aspect_defs[call.arg]
           /\ call.raised = "" =>
                  /\ _aspect_defs[call.arg] = call.obj
                  /\ \A n \in AspectNames \ {call.arg} :
                         /\ n \in DOMAIN _aspect_defs <=> n \in DOMAIN call.before._aspect_defs
                         /\ n \in DOMAIN _aspect_defs =>
                                _aspect_defs[n] = call.before._aspect_defs[n]
    /\ ( /\ call.op = "add_aspect_def"
         /\ call.prev.op = "remove_aspect_def"
         /\ call.prev.arg = call.arg /\ call.prev.result )
       => (call.raised = "" /\ _aspect_defs[call.arg] = call.obj)

\* A second definition object of a registered name is refused.
C14_Witness ==
    /\ call.op = "add_aspect_def" /\ call.raised # ""
    /\ call.arg \in DOMAIN _aspect_defs
    /\ _aspect_defs[call.arg] # call.obj

C14_ReAddWitness ==
    /\ call.op = "add_aspect_def" /\ call.raised = ""
    /\ call.prev.op = "remove_aspect_def" /\ call.prev.arg = call.arg /\ call.prev.result

\* C15: add_hierarchy(h) stores h under h.name, replacing a hierarchy already
\* registered under that name and leaving other names untouched;
\* remove_hierarchy(name) returns True if and only if name was registered;
\* and always has_hierarchy(name) <=> name in hierarchy_names() <=>
\* get_hierarchy(name) is not None, every hierarchy stored under its own name.
C15_HierarchyRegistry ==
    /\ call.op = "add_hierarchy" =>
           /\ HierarchyPool[call.obj].name = call.arg
           /\ Catalog_get_hierarchy(_hierarchies, call.arg) = call.obj
           /\ \A n \in HierarchyNames \ {call.arg} :
                  Catalog_get_hierarchy(_hierarchies, n)
                      = Catalog_get_hierarchy(call.before._hierarchies, n)
    /\ call.op = "remove_hierarchy" =>
           /\ call.result <=> call.arg \in DOMAIN call.before._hierarchies
           /\ ~Catalog_has_hierarchy(_hierarchies, call.arg)
           /\ \A n \in HierarchyNames \ {call.arg} :
                  Catalog_get_hierarchy(_hierarchies, n)
                      = Catalog_get_hierarchy(call.before._hierarchies, n)
    /\ \A n \in HierarchyNames :
           /\ Catalog_has_hierarchy(_hierarchies, n)
                  <=> n \in Catalog_hierarchy_names(_hierarchies)
           /\ Catalog_has_hierarchy(_hierarchies, n)
                  <=> Catalog_get_hierarchy(_hierarchies, n) # NoHierarchy
    /\ \A n \in Catalog_hierarchy_names(_hierarchies) :
           HierarchyPool[_hierarchies[n]].name = n

\* A hierarchy replaces another one registered under its name.
C15_Witness ==
    /\ call.op = "add_hierarchy"
    /\ call.arg \in DOMAIN call.before._hierarchies
    /\ call.before._hierarchies[call.arg] # call.obj
    /\ Catalog_get_hierarchy(_hierarchies, call.arg) = call.obj
    /\ Cardinality(Catalog_hierarchy_names(_hierarchies)) = 2

\* The species for which each predicate is stated to be true.
TrueSet(predicate) ==
    CASE predicate = "is_read_only"     -> {"MIRROR", "CACHE"}
      [] predicate = "is_writable"      -> {"SOURCE", "SINK", "CLONE", "FORK"}
      [] predicate = "is_authoritative" -> {"SOURCE"}
      [] predicate = "is_temporary"     -> {"CACHE"}
      [] predicate = "is_replica"       -> {"MIRROR", "CACHE", "CLONE"}
      [] predicate = "can_diverge"      -> {"CLONE", "FORK", "CACHE"}

\* C25: the species predicates are functions of the species alone with the
\* true-sets of TrueSet; every species is exactly one of read-only or
\* writable, and the authoritative species is writable and not a replica.
C25_SpeciesPredicates ==
    call.op = "species" =>
        /\ \A predicate \in DOMAIN call.result :
               call.result[predicate] <=> call.arg \in TrueSet(predicate)
        /\ call.result.is_read_only # call.result.is_writable
        /\ call.result.is_authoritative =>
               (call.result.is_writable /\ ~call.result.is_replica)

\* The predicates of SINK: writable, and nothing else.
C25_Witness ==
    /\ call.op = "species" /\ call.arg = "SINK"
    /\ call.result.is_writable /\ ~call.result.is_read_only
    /\ ~call.result.is_replica /\ ~call.result.can_diverge

\* What the registry operations do when no species policy applies.
RegistryOutcome ==
    /\ call.op = "add_aspect_def" =>
           IF call.arg \in DOMAIN call.before._aspect_defs
           THEN call.raised # "" /\ Registries = call.before
           ELSE /\ call.raised = ""
                /\ _aspect_defs = dict_set(call.before._aspect_defs, call.arg, call.obj)
                /\ _hierarchies = call.before._hierarchies
    /\ call.op = "remove_aspect_def" =>
           /\ call.result <=> call.arg \in DOMAIN call.before._aspect_defs
           /\ _aspect_defs = dict_del(call.before._aspect_defs, call.arg)
           /\ _hierarchies = call.before._hierarchies
    /\ call.op = "add_hierarchy" =>
           /\ call.raised = ""
           /\ _hierarchies = dict_set(call.before._hierarchies, call.arg, call.obj)
           /\ _aspect_defs = call.before._aspect_defs
    /\ call.op = "remove_hierarchy" =>
           /\ call.result <=> call.arg \in DOMAIN call.before._hierarchies
           /\ _hierarchies = dict_del(call.before._hierarchies, call.arg)
           /\ _aspect_defs = call.before._aspect_defs

\* C26: the core does not enforce species policy: for every species, the
\* read-only MIRROR and CACHE included, add_aspect_def, remove_aspect_def,
\* add_hierarchy and remove_hierarchy succeed or fail as on a SOURCE catalog
\* with the same contents and leave the same registries, and no operation
\* changes the species.
C26_SpeciesNotEnforced ==
    /\ [](species \in CatalogSpecies /\ RegistryOutcome)
    /\ [][species' = species]_vars

\* A hierarchy was registered in a MIRROR catalog.
C26_Witness ==
    /\ species = "MIRROR"
    /\ call.op = "add_hierarchy"
    /\ call.arg \notin DOMAIN call.before._hierarchies
    /\ Catalog_get_hierarchy(_hierarchies, call.arg) = call.obj
    /\ DOMAIN _aspect_defs # {}

---------------------------------------------------------------------------
(* PropertyType.validate, PropertyType.from_value and the construction of  *)
(* PropertyDefImpl and AspectDefImpl, applied to values of every class.    *)

\* Python values of the classes the type system tells apart, and of two
\* classes (list, dict) that no PropertyType stands for.
PyValues ==
    PropertyValue \cup
    { [kind |-> "bool", v |-> 0],
      [kind |-> "int", v |-> 0],
      [kind |-> "float", v |-> 1],
      [kind |-> "Decimal", v |-> 1],
      [kind |-> "datetime", v |-> 1],
      [kind |-> "UUID", v |-> 1],
      [kind |-> "bytes", v |-> 1],
      [kind |-> "list", v |-> 1],
      [kind |-> "dict", v |-> 1] }

\* A variant of from_value with the int test ahead of the bool test.
from_value_int_first(value) ==
    IF isinstance(value, "int") THEN [raised |-> "", result |-> "INTEGER"]
    ELSE IF isinstance(value, "bool") THEN [raised |-> "", result |-> "BOOLEAN"]
    ELSE IF isinstance(value, "float") THEN [raised |-> "", result |-> "FLOAT"]
    ELSE IF isinstance(value, "Decimal") THEN [raised |-> "", result |-> "BIG_DECIMAL"]
    ELSE IF isinstance(value, "str") THEN [raised |-> "", result |-> "STRING"]
    ELSE IF isinstance(value, "datetime") THEN [raised |-> "", result |-> "DATE_TIME"]
    ELSE IF isinstance(value, "UUID") THEN [raised |-> "", result |-> "UUID"]
    ELSE IF isinstance(value, "bytes") THEN [raised |-> "", result |-> "BLOB"]
    ELSE [raised |-> "TypeError: cannot infer PropertyType", result |-> ""]

\* PropertyType.from_value(value)
from_value(value) ==
    IF isinstance(value, "bool") THEN [raised |-> "", result |-> "BOOLEAN"]
    ELSE IF isinstance(value, "int") THEN [raised |-> "", result |-> "INTEGER"]
    ELSE IF isinstance(value, "float") THEN [raised |-> "", result |-> "FLOAT"]
    ELSE IF isinstance(value, "Decimal") THEN [raised |-> "", result |-> "BIG_DECIMAL"]
    ELSE IF isinstance(value, "str") THEN [raised |-> "", result |-> "STRING"]
    ELSE IF isinstance(value, "datetime") THEN [raised |-> "", result |-> "DATE_TIME"]
    ELSE IF isinstance(value, "UUID") THEN [raised |-> "", result |-> "UUID"]
    ELSE IF isinstance(value, "bytes") THEN [raised |-> "", result |-> "BLOB"]
    ELSE [raised |-> "TypeError: cannot infer PropertyType", result |-> ""]

\* The names a definition is constructed with.
DefNames == {"", "name"}

\* What a failed construction leaves: no object.
NoObject == [name |-> "", property_type |-> "", default_value |-> None,
             is_writable |-> FALSE, is_nullable |-> FALSE]

\* A variant of the PropertyDefImpl construction that does not look at the
\* default value.
PropertyDef_construct_unchecked(d) ==
    IF d.name = ""
    THEN [raised |-> "ValueError: Property name cannot be empty", obj |-> NoObject]
    ELSE [raised |-> "", obj |-> d]

\* PropertyDefImpl(name=..., property_type=..., default_value=..., ...):
\* the generated __init__ followed by __post_init__.
PropertyDef_construct(d) ==
    IF d.name = ""
    THEN [raised |-> "ValueError: Property name cannot be empty", obj |-> NoObject]
    ELSE IF d.default_value # None /\ ~validate(d.property_type, d.default_value)
    THEN [raised |-> "ValueError: Default value is not valid for type", obj |-> NoObject]
    ELSE [raised |-> "", obj |-> d]

\* AspectDefImpl(name=...): the generated __init__ followed by __post_init__.
AspectDef_construct(name) ==
    IF name = ""
    THEN [raised |-> "ValueError: Aspect name cannot be empty", obj |-> [name |-> ""]]
    ELSE [raised |-> "", obj |-> [name |-> name]]

InitTypes ==
    /\ component = "PropertyType"
    /\ RestIdle
    /\ call = [op |-> "construct"]
    /\ AspectIdle /\ TreeIdle /\ ListIdle /\ EntityIdle
    /\ SetIdle /\ DirIdle /\ MapIdle /\ CatalogIdle

\* property_type.validate(value)
Validate(t, value) ==
    /\ call' = [op |-> "validate", type |-> t, value |-> value,
                result |-> validate(t, value)]
    /\ UNCHANGED <<component, restVars, aspectVars, treeVars, listVars, entityVars,
                   setVars, dirVars, mapVars, catalogVars>>

\* PropertyType.from_value(value)
FromValue(value) ==
    LET r == from_value(value) IN
    /\ call' = [op |-> "from_value", value |-> value,
                raised |-> r.raised, result |-> r.result]
    /\ UNCHANGED <<component, restVars, aspectVars, treeVars, listVars, entityVars,
                   setVars, dirVars, mapVars, catalogVars>>

\* PropertyDefImpl(name, property_type, default_value, is_writable, is_nullable)
NewPropertyDef(d) ==
    LET r == PropertyDef_construct(d) IN
    /\ call' = [op |-> "PropertyDefImpl", args |-> d,
                raised |-> r.raised, obj |-> r.obj]
    /\ UNCHANGED <<component, restVars, aspectVars, treeVars, listVars, entityVars,
                   setVars, dirVars, mapVars, catalogVars>>

\* AspectDefImpl(name)
NewAspectDef(name) ==
    LET r == AspectDef_construct(name) IN
    /\ call' = [op |-> "AspectDefImpl", args |-> [name |-> name],
                raised |-> r.raised, obj |-> r.obj]
    /\ UNCHANGED <<component, restVars, aspectVars, treeVars, listVars, entityVars,
                   setVars, dirVars, mapVars, catalogVars>>

NextTypes ==
    \/ \E t \in PropertyType, v \in PyValues : Validate(t, v)
    \/ \E v \in PyValues : FromValue(v)
    \/ \E d \in [name : DefNames, property_type : PropertyType,
                 default_value : PyValues,
                 is_writable : BOOLEAN, is_nullable : BOOLEAN] : NewPropertyDef(d)
    \/ \E n \in DefNames : NewAspectDef(n)

SpecTypes == InitTypes /\ [][NextTypes]_vars

---------------------------------------------------------------------------
(* Properties of the type system and of definition construction.           *)

\* C16: for every PropertyType, validate(None) is true, and for a non-None
\* value validate(v) is true if and only if the class of v is the declared
\* representation of the type: a boolean is valid only for BOOLEAN, an
\* integer only for the integer kinds, and so on for every representation.
C16_ValidateByRepresentation ==
    call.op = "validate" =>
        ( call.result <=>
              \/ call.value = None
              \/ call.value.kind = python_type(call.type) )

\* C17: from_value(v) is a function of the class of v tested in the order
\* bool, int, float, Decimal, str, datetime, UUID, bytes: BOOLEAN for True
\* and False (never INTEGER), TypeError for any other input, and the type it
\* returns validates v.
C17_FromValue ==
    call.op = "from_value" =>
        LET k == call.value.kind IN
        /\ call.raised = "" <=>
               k \in {"bool", "int", "float", "Decimal", "str", "datetime", "UUID", "bytes"}
        /\ call.raised # "" => call.raised = "TypeError: cannot infer PropertyType"
        /\ k = "bool" => call.result = "BOOLEAN"
        /\ k = "int" => call.result = "INTEGER"
        /\ k = "float" => call.result = "FLOAT"
        /\ k = "Decimal" => call.result = "BIG_DECIMAL"
        /\ k = "str" => call.result = "STRING"
        /\ k = "datetime" => call.result = "DATE_TIME"
        /\ k = "UUID" => call.result = "UUID"
        /\ k = "bytes" => call.result = "BLOB"
        /\ call.raised = "" => validate(call.result, call.value)

\* from_value(True) is BOOLEAN.
C17_Witness ==
    /\ call.op = "from_value"
    /\ call.value = [kind |-> "bool", v |-> 1]
    /\ call.raised = "" /\ call.result = "BOOLEAN"

\* C18: PropertyDef construction fails when the name is empty or when a
\* provided default value fails validate for the declared type, and succeeds
\* otherwise; AspectDef construction fails when the name is empty; no
\* definition object has an empty name or a type-invalid default.
C18_DefinitionConstruction ==
    /\ call.op = "PropertyDefImpl" =>
           /\ call.raised # "" <=>
                  \/ call.args.name = ""
                  \/ ~validate(call.args.property_type, call.args.default_value)
           /\ call.raised = "" =>
                  /\ call.obj = call.args
                  /\ call.obj.name # ""
                  /\ validate(call.obj.property_type, call.obj.default_value)
    /\ call.op = "AspectDefImpl" =>
           /\ call.raised # "" <=> call.args.name = ""
           /\ call.raised = "" => call.obj.name # ""

\* A named definition whose default is not of its type is refused.
C18_Witness ==
    /\ call.op = "PropertyDefImpl"
    /\ call.args.name # ""
    /\ call.args.default_value # None
    /\ ~validate(call.args.property_type, call.args.default_value)
    /\ call.raised # ""

---------------------------------------------------------------------------
(* cheap-json: a PropertyDef written as JSON and read back.                *)

\* orjson.loads(orjson.dumps(value)) for a default value: None, booleans,
\* numbers and strings come back as they were; a datetime and a UUID are
\* written as strings and come back as strings.
json_value(value) ==
    CASE value.kind = "datetime" -> [kind |-> "str", v |-> 100 + value.v]
      [] value.kind = "UUID"     -> [kind |-> "str", v |-> 200 + value.v]
      [] OTHER                   -> value

\* The default values the definitions under test carry.
JsonDefaults ==
    { v \in PyValues : v.kind \in {"NoneType", "bool", "int", "float", "str",
                                   "datetime", "UUID"} }

\* The PropertyDefImpl objects to serialize: every type, every combination of
\* flags, every default value the constructor accepts.
JsonPropertyDefs ==
    { d \in [name : {"name"}, property_type : PropertyType,
             default_value : JsonDefaults, is_writable : BOOLEAN,
             is_nullable : BOOLEAN, is_multivalued : BOOLEAN] :
        PropertyDef_construct(d).raised = "" }

\* _serialize_property_def: the dictionary it returns.
serialize_property_def(prop_def) ==
    LET keys == {"name", "type"}
                \cup (IF ~prop_def.is_writable THEN {"isWritable"} ELSE {})
                \cup (IF prop_def.is_nullable THEN {"isNullable"} ELSE {})
                \cup (IF prop_def.is_multivalued THEN {"isMultivalued"} ELSE {})
                \cup (IF prop_def.default_value # None THEN {"defaultValue"} ELSE {})
    IN  [k \in keys |->
            CASE k = "name"          -> prop_def.name
              [] k = "type"          -> prop_def.property_type
              [] k = "isWritable"    -> FALSE
              [] k = "isNullable"    -> TRUE
              [] k = "isMultivalued" -> TRUE
              [] k = "defaultValue"  -> prop_def.default_value]

\* orjson.dumps followed by orjson.loads on that dictionary.
json_dumps_loads(data) ==
    [k \in DOMAIN data |-> IF k = "defaultValue" THEN json_value(data[k]) ELSE data[k]]

\* data.get(key, default)
data_get(data, key, default) == IF key \in DOMAIN data THEN data[key] ELSE default

\* _deserialize_property_def: the exception raised, or the PropertyDefImpl.
deserialize_property_def(data) ==
    PropertyDef_construct(
        [name |-> data["name"],
         property_type |-> data["type"],
         is_writable |-> data_get(data, "isWritable", TRUE),
         is_nullable |-> data_get(data, "isNullable", TRUE),
         is_multivalued |-> data_get(data, "isMultivalued", FALSE),
         default_value |-> data_get(data, "defaultValue", None)])

InitJson ==
    /\ component = "CheapJson"
    /\ RestIdle
    /\ call = [op |-> "construct"]
    /\ AspectIdle /\ TreeIdle /\ ListIdle /\ EntityIdle
    /\ SetIdle /\ DirIdle /\ MapIdle /\ CatalogIdle

\* CheapJsonDeserializer.from_json_property_def(CheapJsonSerializer.to_json(prop_def))
RoundTripPropertyDef(prop_def) ==
    LET json == json_dumps_loads(serialize_property_def(prop_def))
        r == deserialize_property_def(json)
    IN  /\ call' = [op |-> "roundtrip", original |-> prop_def, keys |-> DOMAIN json,
                    raised |-> r.raised, result |-> r.obj]
        /\ UNCHANGED <<component, restVars, aspectVars, treeVars, listVars, entityVars,
                       setVars, dirVars, mapVars, catalogVars>>

NextJson ==
    \E d \in JsonPropertyDefs : RoundTripPropertyDef(d)

SpecJson == InitJson /\ [][NextJson]_vars

---------------------------------------------------------------------------
(* Properties of the JSON round trip.                                      *)

\* C27: serializing a PropertyDef to JSON and deserializing it back yields a
\* PropertyDef with the same name, type, is_writable, is_nullable,
\* is_multivalued and default value, for every combination of the flags.
C27_PropertyDefRoundTrip ==
    call.op = "roundtrip" =>
        /\ call.raised = ""
        /\ call.result.name = call.original.name
        /\ call.result.property_type = call.original.property_type
        /\ call.result.is_writable = call.original.is_writable
        /\ call.result.is_nullable = call.original.is_nullable
        /\ call.result.is_multivalued = call.original.is_multivalued
        /\ call.result.default_value = call.original.default_value

---------------------------------------------------------------------------
(* cheap-rest-client: one call of _request_with_retry, of CheapClient or   *)
(* of AsyncCheapClient (the two methods differ in await and sleep only).   *)

\* The largest max_retries a client is configured with.
MaxRetries == 2

\* The status codes a response carries.
StatusCodes == {200, 301, 400, 404, 409, 500, 599}

\* The exceptions self.client.request raises; RemoteProtocolError is an
\* httpx.TransportError that is none of the three classes caught.
RequestErrors == {"ConnectError", "TimeoutException", "NetworkError", "RemoteProtocolError"}

\* What one self.client.request call meets.
Events ==
    [kind : {"response"}, status_code : StatusCodes, exc : {""}]
    \cup [kind : {"error"}, status_code : {0}, exc : RequestErrors]

\* httpx.Response.is_error
is_error(status_code) == 400 <= status_code /\ status_code <= 599

\* A variant of _handle_response_error without the 404 branch.
handle_response_error_no_404(status_code) ==
    IF status_code = 400 THEN "CheapRestBadRequestException"
    ELSE IF 500 <= status_code /\ status_code < 600 THEN "CheapRestServerException"
    ELSE "CheapRestClientException"

\* _handle_response_error: the exception it raises.
handle_response_error(status_code) ==
    IF status_code = 404 THEN "CheapRestNotFoundException"
    ELSE IF status_code = 400 THEN "CheapRestBadRequestException"
    ELSE IF 500 <= status_code /\ status_code < 600 THEN "CheapRestServerException"
    ELSE "CheapRestClientException"

\* A variant of the first except clause that lets timeouts through.
caught_no_timeout(exc) == exc \in {"ConnectError", "NetworkError"}

\* except (httpx.ConnectError, httpx.TimeoutException, httpx.NetworkError)
caught(exc) == exc \in {"ConnectError", "TimeoutException", "NetworkError"}

Returned(status_code) ==
    [kind |-> "returned", exc |-> "", status_code |-> status_code, attempts |-> 0]

Raised(exc, status_code, attempts) ==
    [kind |-> "raised", exc |-> exc, status_code |-> status_code, attempts |-> attempts]

\* client._request_with_retry(method, url) is entered.
InitRest ==
    /\ component = "CheapClient"
    /\ client \in {"CheapClient", "AsyncCheapClient"}
    /\ max_retries \in 0..MaxRetries
    /\ pc = "request"
    /\ attempt = 0
    /\ last_exception = "None"
    /\ log = <<>>
    /\ outcome = [kind |-> "none"]
    /\ call = [op |-> "_request_with_retry"]
    /\ AspectIdle /\ TreeIdle /\ ListIdle /\ EntityIdle
    /\ SetIdle /\ DirIdle /\ MapIdle /\ CatalogIdle

\* One pass of the for loop: self.client.request meets event, and the code
\* runs up to the next request, the return or the raise.
Request(event) ==
    /\ pc = "request"
    /\ attempt < max_retries + 1
    /\ log' = Append(log, event)
    /\ IF event.kind = "response" /\ ~is_error(event.status_code)
       THEN /\ outcome' = Returned(event.status_code)
            /\ pc' = "done"
            /\ UNCHANGED <<attempt, last_exception>>
       ELSE IF event.kind = "response"
       THEN /\ outcome' = Raised(handle_response_error(event.status_code),
                                 event.status_code, 0)
            /\ pc' = "done"
            /\ UNCHANGED <<attempt, last_exception>>
       ELSE IF caught(event.exc)
       THEN /\ last_exception' = event.exc
            /\ IF attempt < max_retries
               THEN /\ attempt' = attempt + 1
                    /\ pc' = "request"
                    /\ UNCHANGED outcome
               ELSE /\ outcome' = Raised("CheapRestClientException", 0, max_retries + 1)
                    /\ pc' = "done"
                    /\ UNCHANGED attempt
       ELSE /\ outcome' = Raised(event.exc, 0, 0)
            /\ pc' = "done"
            /\ UNCHANGED <<attempt, last_exception>>
    /\ UNCHANGED <<component, client, max_retries, call, aspectVars, treeVars, listVars,
                   entityVars, setVars, dirVars, mapVars, catalogVars>>

NextRest ==
    \E event \in Events : Request(event)

SpecRest == InitRest /\ [][NextRest]_vars

\* Every request ends (timeout is positive) and every backoff sleep is finite.
SpecRestFair == SpecRest /\ WF_vars(NextRest)

---------------------------------------------------------------------------
(* Properties of the REST client's retry loop.                             *)

\* A connect error, a timeout or a network error.
NetworkFailure(event) ==
    event.kind = "error" /\ event.exc \in {"ConnectError", "TimeoutException", "NetworkError"}

C28_Safety ==
    /\ Len(log) <= max_retries + 1
    /\ \A i \in 1..Len(log) :
           /\ (NetworkFailure(log[i]) /\ i < max_retries + 1) =>
                  \/ Len(log) > i
                  \/ Len(log) = i /\ pc = "request" /\ attempt = i
           /\ (log[i].kind = "response" /\ log[i].status_code < 400) =>
                  /\ i = Len(log)
                  /\ pc = "done"
                  /\ outcome = Returned(log[i].status_code)
    /\ (Len(log) = max_retries + 1 /\ \A i \in 1..Len(log) : NetworkFailure(log[i])) =>
           /\ pc = "done"
           /\ outcome = Raised("CheapRestClientException", 0, max_retries + 1)
    /\ pc = "done" => Len(log) >= 1

\* C28: one call of _request_with_retry issues at most max_retries + 1
\* requests and always terminates: a network failure on an attempt before the
\* last is followed by exactly one more attempt, the first non-error response
\* is returned at once, and when all max_retries + 1 attempts fail with a
\* network error the call raises CheapRestClientException reporting
\* max_retries + 1 attempts.
C28_BoundedRetry ==
    /\ []C28_Safety
    /\ <>(pc = "done")

\* Three attempts, three network failures, with max_retries = 2.
C28_Witness ==
    /\ pc = "done" /\ max_retries = 2 /\ Len(log) = 3
    /\ \A i \in 1..3 : NetworkFailure(log[i])
    /\ outcome = Raised("CheapRestClientException", 0, 3)

\* C29: an HTTP error response is never retried: the attempt that receives an
\* error status is the last request of the call, whatever max_retries is and
\* however many earlier attempts failed, and the call raises
\* CheapRestNotFoundException for 404, CheapRestBadRequestException for 400,
\* CheapRestServerException for 500-599 and CheapRestClientException for
\* any other error status.
C29_NoRetryOnHttpError ==
    \A i \in 1..Len(log) :
        (log[i].kind = "response" /\ log[i].status_code >= 400) =>
            /\ i = Len(log)
            /\ pc = "done"
            /\ outcome.kind = "raised"
            /\ outcome.status_code = log[i].status_code
            /\ log[i].status_code = 404 => outcome.exc = "CheapRestNotFoundException"
            /\ log[i].status_code = 400 => outcome.exc = "CheapRestBadRequestException"
            /\ log[i].status_code \in 500..599 => outcome.exc = "CheapRestServerException"
            /\ log[i].status_code \notin {404, 400} \cup (500..599)
                   => outcome.exc = "CheapRestClientException"

\* A 404 on the second attempt, after a timeout, with a retry still left.
C29_Witness ==
    /\ max_retries = 2 /\ Len(log) = 2 /\ pc = "done"
    /\ log[1] = [kind |-> "error", status_code |-> 0, exc |-> "TimeoutException"]
    /\ log[2] = [kind |-> "response", status_code |-> 404, exc |-> ""]
    /\ outcome.exc = "CheapRestNotFoundException"

---------------------------------------------------------------------------
(* The core objects side by side: a client exercises one object of any of  *)
(* the classes above.                                                      *)

InitCore ==
    \/ InitAspect
    \/ InitEntity
    \/ InitCatalog
    \/ InitList
    \/ InitSet
    \/ InitDir
    \/ InitTree
    \/ InitMap

NextCore ==
    \/ component = "Aspect" /\ NextAspect
    \/ component = "Entity" /\ NextEntity
    \/ component = "Catalog" /\ NextCatalog
    \/ component = "EntityListHierarchy" /\ NextList
    \/ component = "EntitySetHierarchy" /\ NextSet
    \/ component = "EntityDirectoryHierarchy" /\ NextDir
    \/ component = "EntityTreeHierarchy" /\ NextTree
    \/ component = "AspectMapHierarchy" /\ NextMap

SpecCore == InitCore /\ [][NextCore]_vars

---------------------------------------------------------------------------
(* Properties shared by the core objects.                                  *)

\* C24: looking up an absent key never raises and never changes state:
\* Aspect.get_property, Entity.get_aspect, Catalog.get_hierarchy,
\* EntityDirectoryHierarchy.get, AspectMapHierarchy.get and
\* EntityTreeHierarchy.get_node return None for a name or id that is not
\* present, and the container holds the same keys and values afterwards.
C24_AbsentLookup ==
    /\ (component = "Aspect" /\ call.op = "get_property") =>
           /\ call.raised = ""
           /\ properties = call.before
           /\ call.name \notin DOMAIN call.before => call.result = None
    /\ (component = "Entity" /\ call.op = "get_aspect") =>
           /\ call.raised = ""
           /\ ents = call.before
           /\ call.aspect_name \notin DOMAIN call.before[call.slot].aspects
                  => call.result = 0
    /\ (component = "Catalog" /\ call.op = "get_hierarchy") =>
           /\ call.raised = ""
           /\ Registries = call.before
           /\ call.arg \notin DOMAIN call.before._hierarchies
                  => call.result = NoHierarchy
    /\ (component = "EntityDirectoryHierarchy" /\ call.op = "get") =>
           /\ directory = call.before
           /\ call.arg \notin DOMAIN call.before => call.result = NoId
    /\ (component = "AspectMapHierarchy" /\ call.op = "get") =>
           /\ aspects = call.before
           /\ call.arg \notin DOMAIN call.before => call.result = NoAspect
    /\ (component = "EntityTreeHierarchy" /\ call.op = "get_node") =>
           /\ call.raised = ""
           /\ <<heap, root, _nodes>>
                  = <<call.before.heap, call.before.root, call.before.nodes>>
           /\ call.entity_id \notin DOMAIN call.before.nodes => call.result = NoNode

\* An unregistered name is looked up in a catalog that holds hierarchies.
C24_Witness ==
    /\ component = "Catalog" /\ call.op = "get_hierarchy"
    /\ call.arg \notin DOMAIN _hierarchies
    /\ DOMAIN _hierarchies # {}
    /\ call.result = NoHierarchy

\* C30: in each of the five hierarchy variants (List, Set, Directory, Tree,
\* AspectMap), after any sequence of operations is_empty() is true exactly
\* when size() is 0, and after clear() size() is 0, is_empty() is true and no
\* id or key stored before the clear is found any more.
C30_EmptyAndClear ==
    /\ component = "EntityListHierarchy" =>
           /\ List_is_empty(entities) <=> List_size(entities) = 0
           /\ call.op = "clear" =>
                  /\ List_size(entities) = 0 /\ List_is_empty(entities)
                  /\ \A i \in 1..Len(call.before) :
                         List_index_of(entities, call.before[i]) = -1
    /\ component = "EntitySetHierarchy" =>
           /\ Set_is_empty(set_entities) <=> Set_size(set_entities) = 0
           /\ call.op = "clear" =>
                  /\ Set_size(set_entities) = 0 /\ Set_is_empty(set_entities)
                  /\ \A id \in call.before : ~Set_contains(set_entities, id)
    /\ component = "EntityDirectoryHierarchy" =>
           /\ Dir_is_empty(directory) <=> Dir_size(directory) = 0
           /\ call.op = "clear" =>
                  /\ Dir_size(directory) = 0 /\ Dir_is_empty(directory)
                  /\ \A path \in DOMAIN call.before :
                         /\ ~Dir_contains_path(directory, path)
                         /\ Dir_get(directory, path) = NoId
    /\ component = "EntityTreeHierarchy" =>
           /\ tree_is_empty(root) <=> tree_size(_nodes) = 0
           /\ call.op = "clear" =>
                  /\ tree_size(_nodes) = 0 /\ tree_is_empty(root)
                  /\ \A id \in DOMAIN call.before.nodes : get_node(_nodes, id) = NoNode
    /\ component = "AspectMapHierarchy" =>
           /\ Map_is_empty(aspects) <=> Map_size(aspects) = 0
           /\ call.op = "clear" =>
                  /\ Map_size(aspects) = 0 /\ Map_is_empty(aspects)
                  /\ \A id \in DOMAIN call.before :
                         /\ ~Map_contains_key(aspects, id)
                         /\ Map_get(aspects, id) = NoAspect

\* A tree holding a root and a child has just been cleared.
C30_Witness ==
    /\ component = "EntityTreeHierarchy" /\ call.op = "clear"
    /\ Cardinality(DOMAIN call.before.nodes) >= 2
    /\ call.before.root # NoNode
    /\ tree_is_empty(root) /\ tree_size(_nodes) = 0

====
